---- MODULE Spec2Model ----
(***************************************************************************)
(* A model of the kit repository engine (pkg/repo): the content-addressed *)
(* object store, the branch references, the index, and the merge engine   *)
(* (Merge, FindMergeBase, MergeTrees, MergeFiles, SemanticMergeFiles).     *)
(*                                                                         *)
(* File contents are sequences of tokens; the token NL is the newline      *)
(* byte and every other token is a run of bytes that holds no newline.     *)
(* Object ids are SHA-256 digests, modelled as an injective tag around the *)
(* hashed bytes (collision resistance).                                    *)
(***************************************************************************)
EXTENDS Integers, Sequences, FiniteSets, TLC

VARIABLES
    store,      \* .kit/objects: object id -> stored bytes
    refs,       \* .kit/refs/heads: branch name -> commit id
    headFile,   \* .kit/HEAD: the branch it points at ("ref: refs/heads/<b>")
    stateHEAD,  \* Repository.State.HEAD: the branch of "refs/heads/<b>"
    stage,      \* Repository.State.Stage: path -> object id
    tracked,    \* Repository.State.Tracked: path -> object id
    worktree,   \* Repository.State.WorkTree: path -> recorded hash
    disk,       \* files of the working directory: path -> content / Absent / IsDir
    indexFile,  \* .kit/index as last written by SaveIndex
    clock,      \* number of commit objects created so far (time.Now() ticks)
    last,       \* what the last repository operation was given and returned
    call        \* one call of MergeTrees: its arguments and, once run, its results

vars == <<store, refs, headFile, stateHEAD, stage, tracked, worktree, disk,
          indexFile, clock, last, call>>

----------------------------------------------------------------------------
(* Bounds and universes *)

\* Commit objects a run may create: Commit is taken while fewer exist, and a
\* Merge whose merge commit would exceed the number is not taken.
MaxCommits == 2
\* the same, for runs in which the user may also turn a path into a directory
MaxCommitsFS == 2
\* in a repository that starts with a history: the commits up to which
\* Commit is taken, and the commits there may be once Merge has added its own
MaxCommitsHistory == 3
MaxMergedHistory == 4

Branches == {"main", "feature"}
Paths == {"n"}
CodePaths == {"f.go"}

NL == "\n"

UserContents == {<<"x">>, <<"z">>, <<"x", NL, "y">>}

\* similarity scores the semantic kernel may answer, in percent
Scores == {50, 85, 95}

Strategies == {"AutoMerge", "Ours", "Theirs", "Manual"}

----------------------------------------------------------------------------
(* Generic helpers on maps (Go map[string]T as a function on its key set) *)

EmptyMap == <<>>

Put(m, k, v) == [x \in (DOMAIN m) \cup {k} |-> IF x = k THEN v ELSE m[x]]

Has(m, k) == k \in DOMAIN m

Remove(m, ks) == [x \in (DOMAIN m) \ ks |-> m[x]]

----------------------------------------------------------------------------
(* Lines: strings.Split(content, "\n"), strings.Join(lines, "\n") *)

RECURSIVE SplitFrom(_, _, _)
SplitFrom(content, i, cur) ==
    IF i > Len(content) THEN <<cur>>
    ELSE IF content[i] = NL
         THEN <<cur>> \o SplitFrom(content, i + 1, <<>>)
         ELSE SplitFrom(content, i + 1, Append(cur, content[i]))

Split(content) == SplitFrom(content, 1, <<>>)

RECURSIVE Join(_)
Join(lines) ==
    IF lines = <<>> THEN <<>>
    ELSE IF Len(lines) = 1 THEN lines[1]
    ELSE lines[1] \o <<NL>> \o Join(Tail(lines))

\* "Remove trailing empty lines": drops one trailing empty line
TrimLast(lines) ==
    IF Len(lines) > 0 /\ lines[Len(lines)] = <<>>
    THEN SubSeq(lines, 1, Len(lines) - 1)
    ELSE lines

----------------------------------------------------------------------------
(* MergeFiles: the line-based three-way merge of file contents *)

\* baseMap[line]: the index of the last base line equal to line
InBase(baseLines, line) == \E k \in 1..Len(baseLines) : baseLines[k] = line

BaseIdx(baseLines, line) ==
    CHOOSE k \in 1..Len(baseLines) :
        /\ baseLines[k] = line
        /\ \A m \in (k + 1)..Len(baseLines) : baseLines[m] # line

\* the first unprocessed line of theirs equal to ourLine, 0 when there is none
FirstMatch(theirLines, theirProcessed, ourLine) ==
    LET js == {j \in 1..Len(theirLines) :
                  j \notin theirProcessed /\ theirLines[j] = ourLine}
    IN IF js = {} THEN 0 ELSE CHOOSE j \in js : \A m \in js : j <= m

\* "Find closest match in their changes": the first unprocessed line of theirs
\* whose index is within one of baseIdx, 0 when there is none
ClosestTheirs(theirLines, theirProcessed, baseIdx) ==
    LET js == {j \in 1..Len(theirLines) :
                  j \notin theirProcessed /\ baseIdx - 1 <= j /\ j <= baseIdx + 1}
    IN IF js = {} THEN 0 ELSE CHOOSE j \in js : \A m \in js : j <= m

\* one iteration of the first pass, on our line i
FirstPassStep(baseLines, ourLines, theirLines, i, acc) ==
    LET ourLine == ourLines[i]
        j == FirstMatch(theirLines, acc.theirProcessed, ourLine)
    IN IF j # 0
       THEN [acc EXCEPT !.resultLines = Append(@, ourLine),
                        !.theirProcessed = @ \cup {j}]
       ELSE IF InBase(baseLines, ourLine)
            THEN LET baseIdx == BaseIdx(baseLines, ourLine)
                     theirIdx == ClosestTheirs(theirLines, acc.theirProcessed, baseIdx)
                 IN IF theirIdx # 0 /\ theirLines[theirIdx] # baseLines[baseIdx]
                    THEN [acc EXCEPT !.hasConflict = TRUE]
                    ELSE [acc EXCEPT !.resultLines = Append(@, ourLine)]
            ELSE [acc EXCEPT !.resultLines = Append(@, ourLine)]

RECURSIVE FirstPass(_, _, _, _, _)
FirstPass(baseLines, ourLines, theirLines, i, acc) ==
    IF i > Len(ourLines) THEN acc
    ELSE FirstPass(baseLines, ourLines, theirLines, i + 1,
                   FirstPassStep(baseLines, ourLines, theirLines, i, acc))

\* "Second pass: add any remaining their lines"
RECURSIVE SecondPass(_, _, _, _)
SecondPass(theirLines, theirProcessed, j, resultLines) ==
    IF j > Len(theirLines) THEN resultLines
    ELSE SecondPass(theirLines, theirProcessed, j + 1,
                    IF j \in theirProcessed THEN resultLines
                    ELSE Append(resultLines, theirLines[j]))

ConflictBlock(ourContent, theirContent) ==
    <<"<<<<<<< OURS", NL>> \o ourContent \o <<NL, "=======", NL>>
        \o theirContent \o <<NL, ">>>>>>> THEIRS", NL>>

\* returns [content, hasConflict]; the Go function never returns an error
MergeFiles(baseContent, ourContent, theirContent, strategy) ==
    LET baseLines == TrimLast(Split(baseContent))
        ourLines == TrimLast(Split(ourContent))
        theirLines == TrimLast(Split(theirContent))
        p1 == FirstPass(baseLines, ourLines, theirLines, 1,
                        [resultLines |-> <<>>, theirProcessed |-> {},
                         hasConflict |-> FALSE])
        resultLines == SecondPass(theirLines, p1.theirProcessed, 1, p1.resultLines)
    IN IF p1.hasConflict
       THEN IF strategy = "Ours"
            THEN [content |-> ourContent, hasConflict |-> FALSE]
            ELSE IF strategy = "Theirs"
                 THEN [content |-> theirContent, hasConflict |-> FALSE]
                 ELSE [content |-> ConflictBlock(ourContent, theirContent),
                       hasConflict |-> TRUE]
       ELSE [content |-> Join(resultLines), hasConflict |-> FALSE]

----------------------------------------------------------------------------
(* SemanticMergeFiles.  The semantic kernel is a collaborator: its answers *)
(* are an input sim = [ourSimilarity, theirSimilarity, combinedSimilarity] *)
(* (percent), the three values SemanticDiff returns for (base, ours),      *)
(* (base, theirs) and (ours, theirs).                                      *)

VerySimilar == 90
Compatible == 80

ScoreText(s) == IF s = 50 THEN "50.00%" ELSE IF s = 85 THEN "85.00%" ELSE "95.00%"

SemanticHeader(sim) ==
    <<"// SEMANTIC ANALYSIS:", NL,
      "// Our changes similarity to base: ", ScoreText(sim.ourSimilarity), NL,
      "// Their changes similarity to base: ", ScoreText(sim.theirSimilarity), NL,
      "// Combined similarity: ", ScoreText(sim.combinedSimilarity), NL>>

SemanticMergeFiles(baseContent, ourContent, theirContent, sim) ==
    IF baseContent = <<>> /\ ourContent # <<>> /\ theirContent # <<>>
    THEN IF sim.combinedSimilarity > VerySimilar
         THEN IF Len(ourContent) >= Len(theirContent)
              THEN [content |-> ourContent, hasConflict |-> FALSE]
              ELSE [content |-> theirContent, hasConflict |-> FALSE]
         ELSE [content |-> <<>>, hasConflict |-> TRUE]
    ELSE IF sim.combinedSimilarity > Compatible
         THEN IF sim.ourSimilarity < sim.theirSimilarity
              THEN [content |-> ourContent, hasConflict |-> FALSE]
              ELSE [content |-> theirContent, hasConflict |-> FALSE]
         ELSE LET m == MergeFiles(baseContent, ourContent, theirContent, "AutoMerge")
              IN IF m.hasConflict
                 THEN [content |-> SemanticHeader(sim) \o m.content,
                       hasConflict |-> TRUE]
                 ELSE m

----------------------------------------------------------------------------
(* The object store: storeObject, readObject, and the three object forms *)

\* hex(sha256.Sum256(bytes)): injective on the bytes it is given
Hash(bytes) == [sha |-> bytes]

\* the Go empty string where an object id is expected (no parent, no commit)
EmptyID == [sha |-> [kind |-> "empty"]]

\* raw file bytes
BlobBytes(content) == [kind |-> "blob", data |-> content]

\* json.MarshalIndent(TreeObject): encoding/json writes map keys in sorted
\* order, so the bytes are a function of the path -> entry mapping.  Every
\* entry is {Path: its key, Mode: "100644", Type: "blob", ObjID}.
TreeBytes(entries) == [kind |-> "tree", entries |-> entries]

\* json.MarshalIndent(CommitObject); author and committer are constants
CommitBytes(tree, parent, parent2, message, timestamp) ==
    [kind |-> "commit", tree |-> tree, parent |-> parent, parent2 |-> parent2,
     message |-> message, timestamp |-> timestamp]

\* a store that clears the objects directory before it writes
storeObjectAlone(st, objID, content) == Put(EmptyMap, objID, content)

\* os.WriteFile on objects/<id>: creates the file or overwrites it
storeObject(st, objID, content) == Put(st, objID, content)

\* readObject fails when no file is filed under objID
readable(st, objID) == Has(st, objID)
readObject(st, objID) == st[objID]

IsBlob(st, objID) == readable(st, objID) /\ st[objID].kind = "blob"
IsTree(st, objID) == readable(st, objID) /\ st[objID].kind = "tree"
\* json.Unmarshal into a CommitObject succeeds
IsCommit(st, objID) == readable(st, objID) /\ st[objID].kind = "commit"

isCodeFile(path) == path \in CodePaths

----------------------------------------------------------------------------
(* MergeTrees.  Trees are their Entries maps.  The Go loop ranges over a   *)
(* map, so the order in which paths are processed is unspecified: it is    *)
(* the argument order.  acc = [tree, conflicts, store, err].               *)

Conflict(path, baseContent, ourContent, theirContent) ==
    [Path |-> path, BaseContent |-> baseContent,
     OurContent |-> ourContent, TheirContent |-> theirContent]

\* a MergeTrees that lets a deletion on the other side win
KeepEntryDropped(acc, path, entry) == acc

\* mergedTree.Entries[path] = entry
KeepEntry(acc, path, entry) == [acc EXCEPT !.tree = Put(@, path, entry)]

\* a MergeTrees that stores the file merge's content even when it conflicts
ResolveAlways(m, ourContent, theirContent, strategy) ==
    [content |-> m.content, hasConflict |-> FALSE]

\* "Apply merge strategy for automatic resolution": what the file merge m
\* becomes once Ours or Theirs has picked a side
Resolve(m, ourContent, theirContent, strategy) ==
    IF m.hasConflict /\ strategy = "Ours"
    THEN [content |-> ourContent, hasConflict |-> FALSE]
    ELSE IF m.hasConflict /\ strategy = "Theirs"
    THEN [content |-> theirContent, hasConflict |-> FALSE]
    ELSE m

\* "If we have a resolution, store it": a new blob and its tree entry
StoreMerged(acc, path, mergedContent) ==
    LET contentBytes == BlobBytes(mergedContent)
        contentID == Hash(contentBytes)
    IN [acc EXCEPT !.store = storeObject(@, contentID, contentBytes),
                   !.tree = Put(@, path, contentID)]

\* a MergeTrees that keeps ours whenever the path is on all three sides
MergeAllThreeKeepsOurs(acc, path, baseEntry, ourEntry, theirEntry, options, sim) ==
    KeepEntry(acc, path, ourEntry)

\* Case 1: the path exists in base, ours and theirs
MergeAllThree(acc, path, baseEntry, ourEntry, theirEntry, options, sim) ==
    IF baseEntry = ourEntry /\ baseEntry # theirEntry
    THEN KeepEntry(acc, path, theirEntry)
    ELSE IF baseEntry = theirEntry /\ baseEntry # ourEntry
    THEN KeepEntry(acc, path, ourEntry)
    ELSE IF ourEntry = theirEntry
    THEN KeepEntry(acc, path, ourEntry)
    ELSE IF ~ (/\ readable(acc.store, baseEntry)
               /\ readable(acc.store, ourEntry)
               /\ readable(acc.store, theirEntry))
    THEN [acc EXCEPT !.err = TRUE]
    ELSE
      LET baseContent == readObject(acc.store, baseEntry).data
          ourContent == readObject(acc.store, ourEntry).data
          theirContent == readObject(acc.store, theirEntry).data
          m == IF options.UseSemantic /\ isCodeFile(path)
               THEN SemanticMergeFiles(baseContent, ourContent, theirContent, sim)
               ELSE MergeFiles(baseContent, ourContent, theirContent,
                               options.Strategy)
          acc1 == IF m.hasConflict
                  THEN [acc EXCEPT !.conflicts =
                            Append(@, Conflict(path, baseContent, ourContent,
                                               theirContent))]
                  ELSE acc
          res == Resolve(m, ourContent, theirContent, options.Strategy)
      IN IF ~ res.hasConflict THEN StoreMerged(acc1, path, res.content)
         ELSE acc1

\* a MergeTrees that runs the line merge on an empty base for a path added
\* on both sides
MergeBothAddedLineMerge(acc, path, ourEntry, theirEntry, options, sim) ==
    IF ourEntry = theirEntry
    THEN KeepEntry(acc, path, ourEntry)
    ELSE
      LET ourContent == readObject(acc.store, ourEntry).data
          theirContent == readObject(acc.store, theirEntry).data
          m == IF options.UseSemantic /\ isCodeFile(path)
               THEN SemanticMergeFiles(<<>>, ourContent, theirContent, sim)
               ELSE MergeFiles(<<>>, ourContent, theirContent, options.Strategy)
      IN IF m.hasConflict
         THEN [acc EXCEPT !.conflicts =
                   Append(@, Conflict(path, <<>>, ourContent, theirContent))]
         ELSE StoreMerged(acc, path, m.content)

\* Case 2: the path was added in both ours and theirs
MergeBothAdded(acc, path, ourEntry, theirEntry, options, sim) ==
    IF ourEntry = theirEntry
    THEN KeepEntry(acc, path, ourEntry)
    ELSE IF ~ (readable(acc.store, ourEntry) /\ readable(acc.store, theirEntry))
    THEN [acc EXCEPT !.err = TRUE]
    ELSE
      LET ourContent == readObject(acc.store, ourEntry).data
          theirContent == readObject(acc.store, theirEntry).data
          m == IF options.UseSemantic /\ isCodeFile(path)
               THEN SemanticMergeFiles(<<>>, ourContent, theirContent, sim)
               ELSE IF options.Strategy = "Ours"
                    THEN [content |-> ourContent, hasConflict |-> FALSE]
                    ELSE IF options.Strategy = "Theirs"
                    THEN [content |-> theirContent, hasConflict |-> FALSE]
                    ELSE [content |-> <<>>, hasConflict |-> TRUE]
      IN IF m.hasConflict
         THEN [acc EXCEPT !.conflicts =
                   Append(@, Conflict(path, <<>>, ourContent, theirContent))]
         ELSE StoreMerged(acc, path, m.content)

\* the body of the loop over allPaths, for one path
MergePath(acc, path, baseTree, ourTree, theirTree, options, sim) ==
    LET baseExists == Has(baseTree, path)
        ourExists == Has(ourTree, path)
        theirExists == Has(theirTree, path)
    IN IF baseExists /\ ourExists /\ theirExists
       THEN MergeAllThree(acc, path, baseTree[path], ourTree[path],
                          theirTree[path], options, sim)
       ELSE IF ~ baseExists /\ ourExists /\ theirExists
       THEN MergeBothAdded(acc, path, ourTree[path], theirTree[path], options, sim)
       ELSE IF baseExists /\ ourExists /\ ~ theirExists
       THEN KeepEntry(acc, path, ourTree[path])
       ELSE IF baseExists /\ ~ ourExists /\ theirExists
       THEN KeepEntry(acc, path, theirTree[path])
       ELSE IF ~ baseExists /\ ourExists /\ ~ theirExists
       THEN KeepEntry(acc, path, ourTree[path])
       ELSE IF ~ baseExists /\ ~ ourExists /\ theirExists
       THEN KeepEntry(acc, path, theirTree[path])
       ELSE acc

RECURSIVE MergeLoop(_, _, _, _, _, _, _, _)
MergeLoop(acc, order, k, baseTree, ourTree, theirTree, options, sim) ==
    IF k > Len(order) \/ acc.err THEN acc
    ELSE MergeLoop(MergePath(acc, order[k], baseTree, ourTree, theirTree,
                             options, sim),
                   order, k + 1, baseTree, ourTree, theirTree, options, sim)

\* the orders in which a Go map with key set S may be ranged over
Orders(S) ==
    {o \in [1..Cardinality(S) -> S] : \A a, b \in DOMAIN o : a # b => o[a] # o[b]}

AllPaths(baseTree, ourTree, theirTree) ==
    (DOMAIN baseTree) \cup (DOMAIN ourTree) \cup (DOMAIN theirTree)

\* returns [tree, conflicts, store, err]: the merged Entries, the conflict
\* list, the object store as the call leaves it, and whether it failed
MergeTrees(st, baseTree, ourTree, theirTree, options, sim, order) ==
    MergeLoop([tree |-> EmptyMap, conflicts |-> <<>>, store |-> st, err |-> FALSE],
              order, 1, baseTree, ourTree, theirTree, options, sim)

----------------------------------------------------------------------------
(* The repository handle and its files, as one record r:                   *)
(*   store, refs, headFile, indexFile, disk  - what is on disk             *)
(*   stateHEAD, stage, tracked, worktree     - Repository.State            *)
(*   clock                                   - commits created so far      *)

Cur == [store |-> store, refs |-> refs, headFile |-> headFile,
        stateHEAD |-> stateHEAD, stage |-> stage, tracked |-> tracked,
        worktree |-> worktree, disk |-> disk, indexFile |-> indexFile,
        clock |-> clock]

Becomes(r) ==
    /\ store' = r.store
    /\ refs' = r.refs
    /\ headFile' = r.headFile
    /\ stateHEAD' = r.stateHEAD
    /\ stage' = r.stage
    /\ tracked' = r.tracked
    /\ worktree' = r.worktree
    /\ disk' = r.disk
    /\ indexFile' = r.indexFile
    /\ clock' = r.clock

\* a path of the working directory holds a file, a directory or nothing
File(content) == [kind |-> "file", data |-> content]
Absent == [kind |-> "absent"]
Directory == [kind |-> "dir"]

\* os.WriteFile(filepath.Join(r.Path, path)) fails on a directory
writable(r, path) == r.disk[path].kind # "dir"
\* os.ReadFile succeeds on a regular file only
isFile(r, path) == r.disk[path].kind = "file"
\* os.Stat succeeds on whatever exists
exists(r, path) == r.disk[path].kind # "absent"

\* the keys of the Go map m in the order the range loop meets them
Range(order, m) == SelectSeq(order, LAMBDA p : p \in DOMAIN m)

----------------------------------------------------------------------------
(* index.go: SaveIndex and LoadIndex *)

EmptyIndex == [kind |-> "empty"]

\* a SaveIndex that writes the staged entries and no tracked entry
SaveIndexStageOnly(r) ==
    [r EXCEPT !.indexFile =
        [kind |-> "index", Entries |-> r.stage, Tracking |-> EmptyMap]]

\* a staged path without a WorkTree entry is skipped
SaveIndex(r) ==
    [r EXCEPT !.indexFile =
        [kind |-> "index",
         Entries |-> [p \in (DOMAIN r.stage) \cap (DOMAIN r.worktree) |-> r.stage[p]],
         Tracking |-> r.tracked]]

\* NewRepository on an existing repository: a fresh State, then LoadIndex
NewRepository(r) ==
    LET fresh == [r EXCEPT !.stateHEAD = "main", !.stage = EmptyMap,
                           !.tracked = EmptyMap, !.worktree = EmptyMap]
    IN IF r.indexFile.kind = "empty" THEN fresh
       ELSE LET ix == r.indexFile
                statted == {p \in DOMAIN ix.Tracking :
                               p \notin DOMAIN ix.Entries /\ exists(r, p)}
            IN [fresh EXCEPT
                  !.stage = ix.Entries,
                  !.tracked = ix.Tracking,
                  !.worktree = [p \in (DOMAIN ix.Entries) \cup statted |->
                                   IF p \in DOMAIN ix.Entries THEN ix.Entries[p]
                                   ELSE ix.Tracking[p]]]

----------------------------------------------------------------------------
(* References: resolveReference, updateReference, GetCurrentBranch.        *)
(* A reference "refs/heads/<b>" is named by its branch b.                  *)

refExists(r, branch) == Has(r.refs, branch)
resolveReference(r, branch) == r.refs[branch]
\* an updateReference that moves every branch there is
updateReferenceAll(r, branch, commitID) ==
    [r EXCEPT !.refs = [b \in (DOMAIN @) \cup {branch} |-> commitID]]

updateReference(r, branch, commitID) == [r EXCEPT !.refs = Put(@, branch, commitID)]

\* HEAD always reads "ref: refs/heads/<b>": no operation writes anything else
GetCurrentBranch(r) == r.headFile

----------------------------------------------------------------------------
(* Add and Commit *)

Add(r, path) ==
    IF ~ isFile(r, path) THEN [r |-> r, err |-> TRUE]
    ELSE LET content == BlobBytes(r.disk[path].data)
             objID == Hash(content)
             r1 == [r EXCEPT !.store = storeObject(@, objID, content),
                             !.stage = Put(@, path, objID),
                             !.worktree = Put(@, path, objID)]
         IN [r |-> SaveIndex(r1), err |-> FALSE]

\* a Commit that reports success on a non-empty stage and does nothing
CommitNothing(r, message) ==
    [r |-> r, err |-> DOMAIN r.stage = {}, commitID |-> EmptyID]

\* returns [r, err, commitID]
Commit(r, message) ==
    IF DOMAIN r.stage = {}
    THEN [r |-> r, err |-> TRUE, commitID |-> EmptyID]
    ELSE LET treeData == TreeBytes(r.stage)
             treeID == Hash(treeData)
             st1 == storeObject(r.store, treeID, treeData)
             parentID == IF refExists(r, r.stateHEAD)
                         THEN resolveReference(r, r.stateHEAD) ELSE EmptyID
             commitData == CommitBytes(treeID, parentID, EmptyID, message,
                                       r.clock + 1)
             commitID == Hash(commitData)
             r1 == [r EXCEPT !.store = storeObject(st1, commitID, commitData),
                             !.clock = @ + 1]
             r2 == updateReference(r1, r.stateHEAD, commitID)
             r3 == [r2 EXCEPT !.tracked = [p \in (DOMAIN @) \cup (DOMAIN r.stage) |->
                                              IF p \in DOMAIN r.stage THEN r.stage[p]
                                              ELSE @[p]],
                              !.stage = EmptyMap]
         IN [r |-> SaveIndex(r3), err |-> FALSE, commitID |-> commitID]

----------------------------------------------------------------------------
(* branch.go: CreateBranch and CheckoutBranch *)

CreateBranch(r, name) ==
    IF ~ refExists(r, r.stateHEAD) THEN [r |-> r, err |-> TRUE]
    ELSE LET commitID == resolveReference(r, r.stateHEAD)
         IN IF commitID = EmptyID \/ refExists(r, name)
            THEN [r |-> r, err |-> TRUE]
            ELSE [r |-> updateReference(r, name, commitID), err |-> FALSE]

\* One iteration of "for path, entry := range tree.Entries": track the path,
\* read its object, write the file, record it in WorkTree.  The loop of Merge
\* over mergedTree.Entries (merge.go 195-229) has the same body.
WriteEntry(acc, path, objID) ==
    LET r1 == [acc.r EXCEPT !.tracked = Put(@, path, objID)]
    IN IF ~ readable(r1.store, objID) \/ ~ writable(r1, path)
       THEN [r |-> r1, err |-> TRUE]
       ELSE [r |-> [r1 EXCEPT !.disk[path] = File(readObject(r1.store, objID).data),
                              !.worktree = Put(@, path, objID)],
             err |-> FALSE]

RECURSIVE WriteEntries(_, _, _, _)
WriteEntries(acc, entries, seq, k) ==
    IF k > Len(seq) \/ acc.err THEN acc
    ELSE WriteEntries(WriteEntry(acc, seq[k], entries[seq[k]]), entries, seq, k + 1)

\* a CheckoutBranch that moves HEAD to an existing branch and does no more
CheckoutBranchHeadOnly(r, name, order) ==
    IF ~ Has(r.refs, name) THEN [r |-> r, err |-> TRUE]
    ELSE [r |-> [r EXCEPT !.headFile = name, !.stateHEAD = name], err |-> FALSE]

\* returns [r, err]; on a failure inside the loop the handle keeps what the
\* loop did so far (Tracked was reset, some files were written)
CheckoutBranch(r, name, order) ==
    IF ~ refExists(r, name) THEN [r |-> r, err |-> TRUE]
    ELSE IF DOMAIN r.stage # {} THEN [r |-> r, err |-> TRUE]
    ELSE LET targetCommitID == resolveReference(r, name)
         IN IF ~ IsCommit(r.store, targetCommitID) THEN [r |-> r, err |-> TRUE]
            ELSE LET commit == readObject(r.store, targetCommitID)
                 IN IF ~ IsTree(r.store, commit.tree) THEN [r |-> r, err |-> TRUE]
                    ELSE
      LET tree == readObject(r.store, commit.tree).entries
          filesToRemove == (DOMAIN r.tracked) \ (DOMAIN tree)
          w == WriteEntries([r |-> [r EXCEPT !.tracked = EmptyMap], err |-> FALSE],
                            tree, Range(order, tree), 1)
      IN IF w.err THEN w
         ELSE [r |-> SaveIndex([w.r EXCEPT !.worktree = Remove(@, filesToRemove),
                                           !.stage = EmptyMap,
                                           !.headFile = name,
                                           !.stateHEAD = name]),
               err |-> FALSE]

----------------------------------------------------------------------------
(* merge.go: FindMergeBase *)

\* the commits the loop appends to the queue after reading commit:
\* its Parent when that is set (Parent2 is not looked at)
Enqueued(st, commit) ==
    IF IsCommit(st, commit) /\ readObject(st, commit).parent # EmptyID
    THEN <<readObject(st, commit).parent>>
    ELSE <<>>

\* first loop: the set historyA
RECURSIVE HistoryOf(_, _, _)
HistoryOf(st, queue, historyA) ==
    IF queue = <<>> THEN historyA
    ELSE LET commit == Head(queue)
         IN IF commit \in historyA THEN HistoryOf(st, Tail(queue), historyA)
            ELSE HistoryOf(st, Tail(queue) \o Enqueued(st, commit),
                           historyA \cup {commit})

\* second loop: the first commit met from commitB that is in historyA
RECURSIVE FirstInHistory(_, _, _, _)
FirstInHistory(st, queue, visited, historyA) ==
    IF queue = <<>> THEN [found |-> FALSE, commit |-> EmptyID]
    ELSE LET commit == Head(queue)
         IN IF commit \in visited
            THEN FirstInHistory(st, Tail(queue), visited, historyA)
            ELSE IF commit \in historyA THEN [found |-> TRUE, commit |-> commit]
            ELSE FirstInHistory(st, Tail(queue) \o Enqueued(st, commit),
                                visited \cup {commit}, historyA)

\* a FindMergeBase whose history of commitA starts at its parent
FindMergeBaseFromParent(st, commitA, commitB) ==
    FirstInHistory(st, <<commitB>>, {}, HistoryOf(st, Enqueued(st, commitA), {}))

\* returns [found, commit]; found = FALSE is "no common ancestor found"
FindMergeBase(st, commitA, commitB) ==
    FirstInHistory(st, <<commitB>>, {}, HistoryOf(st, <<commitA>>, {}))

----------------------------------------------------------------------------
(* merge.go: Merge and its helpers *)

treeReadable(st, commitID) ==
    IsCommit(st, commitID) /\ IsTree(st, readObject(st, commitID).tree)

getTreeFromCommit(st, commitID) ==
    readObject(st, readObject(st, commitID).tree).entries

\* a CreateMergeCommit that records the two parents the wrong way round
CreateMergeCommitSwapped(r, message, parent1, parent2, treeID) ==
    LET commitData == CommitBytes(treeID, parent2, parent1, message, r.clock + 1)
        commitID == Hash(commitData)
    IN [r |-> [r EXCEPT !.store = storeObject(@, commitID, commitData),
                        !.clock = @ + 1],
        commitID |-> commitID]

\* returns [r, commitID]
CreateMergeCommit(r, message, parent1, parent2, treeID) ==
    LET commitData == CommitBytes(treeID, parent1, parent2, message, r.clock + 1)
        commitID == Hash(commitData)
    IN [r |-> [r EXCEPT !.store = storeObject(@, commitID, commitData),
                        !.clock = @ + 1],
        commitID |-> commitID]

MarkerFile(conflict) ==
    <<"<<<<<<< HEAD", NL>> \o conflict.OurContent \o <<NL, "=======", NL>>
        \o conflict.TheirContent \o <<NL, ">>>>>>> THEIRS", NL>>

\* returns [r, err]; stops at the first file it cannot write
RECURSIVE WriteConflictMarkers(_, _, _)
WriteConflictMarkers(r, conflicts, k) ==
    IF k > Len(conflicts) THEN [r |-> r, err |-> FALSE]
    ELSE IF ~ writable(r, conflicts[k].Path) THEN [r |-> r, err |-> TRUE]
    ELSE WriteConflictMarkers(
             [r EXCEPT !.disk[conflicts[k].Path] = File(MarkerFile(conflicts[k]))],
             conflicts, k + 1)

\* "return nil, fmt.Errorf(msg ...)"
Failed(msg) == [err |-> TRUE, msg |-> msg, Success |-> FALSE, FastForward |-> FALSE,
                Conflicts |-> <<>>, MergedCommit |-> EmptyID]

Result(success, fastForward, conflicts, mergedCommit) ==
    [err |-> FALSE, msg |-> "", Success |-> success, FastForward |-> fastForward,
     Conflicts |-> conflicts, MergedCommit |-> mergedCommit]

\* fmt.Sprintf("Merge branch '%s' into %s", branchName, currentBranch)
MergeMessage(options, branchName, currentBranch) ==
    IF options.Message = ""
    THEN "Merge branch '" \o branchName \o "' into " \o currentBranch
    ELSE options.Message

\* a Merge that never looks at the stage
NoStagedCheck(r) == FALSE

\* step 4: "Check for uncommitted changes"
HasStagedChanges(r) == DOMAIN r.stage # {}

\* a Merge that compares the merge base with the wrong tip
IsFastForwardToTarget(baseCommitID, currentCommitID, targetCommitID) ==
    baseCommitID = targetCommitID

\* step 6: "Check for fast-forward merge"
IsFastForward(baseCommitID, currentCommitID, targetCommitID) ==
    baseCommitID = currentCommitID

\* a Merge that goes on to the merge commit whatever the strategy
HaltsNever(conflicts, options) == FALSE

\* a Merge that returns on conflicts whatever the strategy
HaltsOnAnyConflict(conflicts, options) == Len(conflicts) > 0

\* "If there are conflicts and strategy is Manual, return with conflicts"
HaltsOnConflicts(conflicts, options) ==
    Len(conflicts) > 0 /\ options.Strategy = "Manual"

\* step 6, taken: move the branch, then check it out
FastForwardMerge(r, currentBranch, targetCommitID, order) ==
    LET r1 == updateReference(r, currentBranch, targetCommitID)
        co == CheckoutBranch(r1, currentBranch, order)
    IN IF co.err
       THEN [r |-> co.r, result |-> Failed("failed to update working tree after merge")]
       ELSE [r |-> co.r, result |-> Result(TRUE, TRUE, <<>>, targetCommitID)]

\* step 9 and what follows it: the merge commit, then Tracked and the files
CommitMerge(r, currentBranch, currentCommitID, targetCommitID, mergedTree, conflicts, options, message, order) ==
    LET treeData == TreeBytes(mergedTree)
        treeID == Hash(treeData)
        mc == CreateMergeCommit([r EXCEPT !.store = storeObject(@, treeID, treeData)],
                                message, currentCommitID, targetCommitID, treeID)
        r1 == IF options.NoCommit THEN r
              ELSE updateReference(mc.r, currentBranch, mc.commitID)
        mergedCommit == IF options.NoCommit THEN EmptyID ELSE mc.commitID
        w == WriteEntries([r |-> r1, err |-> FALSE], mergedTree,
                          Range(order, mergedTree), 1)
    IN IF w.err THEN [r |-> w.r, result |-> Failed("failed to write merged files")]
       ELSE [r |-> SaveIndex(w.r),
             result |-> Result(TRUE, FALSE, conflicts, mergedCommit)]

\* steps 7 and 8, and the halt of strategy Manual
ThreeWayMerge(r, branchName, currentBranch, baseCommitID, currentCommitID, targetCommitID, options, sim, order) ==
    IF ~ (/\ treeReadable(r.store, baseCommitID)
          /\ treeReadable(r.store, currentCommitID)
          /\ treeReadable(r.store, targetCommitID))
    THEN [r |-> r, result |-> Failed("failed to get tree")]
    ELSE LET mt == MergeTrees(r.store,
                              getTreeFromCommit(r.store, baseCommitID),
                              getTreeFromCommit(r.store, currentCommitID),
                              getTreeFromCommit(r.store, targetCommitID),
                              options, sim, order)
             r1 == [r EXCEPT !.store = mt.store]
         IN IF mt.err THEN [r |-> r1, result |-> Failed("failed to merge trees")]
            ELSE IF HaltsOnConflicts(mt.conflicts, options)
            THEN LET wm == WriteConflictMarkers(r1, mt.conflicts, 1)
                 IN IF wm.err
                    THEN [r |-> wm.r,
                          result |-> Failed("failed to write conflict markers")]
                    ELSE [r |-> wm.r,
                          result |-> Result(FALSE, FALSE, mt.conflicts, EmptyID)]
            ELSE CommitMerge(r1, currentBranch, currentCommitID, targetCommitID,
                             mt.tree, mt.conflicts, options,
                             MergeMessage(options, branchName, currentBranch),
                             order)

\* returns [r, result]
Merge(r, branchName, options, sim, order) ==
    LET currentBranch == GetCurrentBranch(r)
    IN IF ~ refExists(r, currentBranch) \/ ~ refExists(r, branchName)
       THEN [r |-> r, result |-> Failed("failed to resolve branch")]
       ELSE IF HasStagedChanges(r)
       THEN [r |-> r, result |-> Failed("cannot merge with uncommitted changes")]
       ELSE LET currentCommitID == resolveReference(r, currentBranch)
                targetCommitID == resolveReference(r, branchName)
                base == FindMergeBase(r.store, currentCommitID, targetCommitID)
            IN IF ~ base.found
               THEN [r |-> r, result |-> Failed("failed to find merge base")]
               ELSE IF IsFastForward(base.commit, currentCommitID, targetCommitID)
               THEN FastForwardMerge(r, currentBranch, targetCommitID, order)
               ELSE ThreeWayMerge(r, branchName, currentBranch, base.commit,
                                  currentCommitID, targetCommitID, options, sim,
                                  order)

----------------------------------------------------------------------------
(* The repository as a state machine.  Init is the repository right after  *)
(* NewRepository and Initialize in an empty directory.                     *)

NoCall == [phase |-> "none"]

InitOn(paths) ==
    /\ store = EmptyMap
    /\ refs = EmptyMap
    /\ headFile = "main"
    /\ stateHEAD = "main"
    /\ stage = EmptyMap
    /\ tracked = EmptyMap
    /\ worktree = EmptyMap
    /\ disk = [p \in paths |-> Absent]
    /\ indexFile = EmptyIndex
    /\ clock = 0
    /\ last = [op |-> "Initialize", err |-> FALSE]
    /\ call = NoCall

\* the options a caller may pass (Message "" asks for the default message)
MergeOptionSet(semantic) ==
    [Strategy : Strategies, NoCommit : BOOLEAN, Message : {""},
     UseSemantic : semantic]

NoSim == [ourSimilarity |-> 50, theirSimilarity |-> 50, combinedSimilarity |-> 50]

\* the user saves content into the file at path, then runs "kit add path"
AddStep(path, content) ==
    \E o \in {Add([Cur EXCEPT !.disk[path] = File(content)], path)} :
       /\ Becomes(o.r)
       /\ last' = [op |-> "Add", err |-> o.err]
       /\ UNCHANGED call

CommitStep(maxCommits) ==
    /\ clock < maxCommits
    /\ \E o \in {Commit(Cur, "commit")} :
          /\ Becomes(o.r)
          /\ last' = [op |-> "Commit", err |-> o.err, commitID |-> o.commitID]
    /\ UNCHANGED call

CreateBranchStep(name) ==
    \E o \in {CreateBranch(Cur, name)} :
       /\ Becomes(o.r)
       /\ last' = [op |-> "CreateBranch", err |-> o.err]
       /\ UNCHANGED call

CheckoutBranchStep(name, order) ==
    \E o \in {CheckoutBranch(Cur, name, order)} :
       /\ Becomes(o.r)
       /\ last' = [op |-> "CheckoutBranch", err |-> o.err]
       /\ UNCHANGED call

MergeStep(branchName, options, sim, order, maxCommits) ==
    \E o \in {Merge(Cur, branchName, options, sim, order)} :
       /\ o.r.clock <= maxCommits
       /\ Becomes(o.r)
       /\ last' = [op |-> "Merge", err |-> o.result.err, result |-> o.result,
                   branchName |-> branchName, options |-> options,
                   ours |-> IF refExists(Cur, headFile)
                            THEN resolveReference(Cur, headFile) ELSE EmptyID]
       /\ UNCHANGED call

Next ==
    \/ \E path \in Paths, content \in UserContents : AddStep(path, content)
    \/ CommitStep(MaxCommits)
    \/ \E name \in Branches : CreateBranchStep(name)
    \/ \E name \in Branches, order \in Orders(Paths) : CheckoutBranchStep(name, order)
    \/ \E branchName \in Branches, options \in MergeOptionSet({FALSE}),
          order \in Orders(Paths) : MergeStep(branchName, options, NoSim, order, MaxCommits)

Spec == InitOn(Paths) /\ [][Next]_vars

----------------------------------------------------------------------------
(* The same machine in a working directory where the user may replace a    *)
(* path by a directory (rm path; mkdir path): files can then not be        *)
(* written there.                                                          *)

UserMkdirStep(path) ==
    /\ disk[path].kind # "dir"
    /\ disk' = [disk EXCEPT ![path] = Directory]
    /\ last' = [op |-> "mkdir", err |-> FALSE]
    /\ UNCHANGED <<store, refs, headFile, stateHEAD, stage, tracked, worktree,
                   indexFile, clock, call>>

NextFS ==
    \/ \E path \in Paths, content \in UserContents : AddStep(path, content)
    \/ \E path \in Paths : UserMkdirStep(path)
    \/ CommitStep(MaxCommitsFS)
    \/ \E name \in Branches : CreateBranchStep(name)
    \/ \E name \in Branches, order \in Orders(Paths) : CheckoutBranchStep(name, order)
    \/ \E branchName \in Branches, options \in MergeOptionSet({FALSE}),
          order \in Orders(Paths) : MergeStep(branchName, options, NoSim, order,
                                              MaxCommitsFS)

SpecFS == InitOn(Paths) /\ [][NextFS]_vars

----------------------------------------------------------------------------
(* The same machine in a working directory of two files, where a handle    *)
(* may also be dropped and made again from what is on disk (every run of   *)
(* the kit command makes one with NewRepository).  The user saves one      *)
(* content only, so no two blobs differ and the strategy of a Merge has    *)
(* nothing to decide: Merge is called with AutoMerge.                      *)

MaxCommitsWide == 3

WidePaths == {"n", "m"}

\* the handle is made again with NewRepository; when save is TRUE,
\* SaveIndex is called on the old handle first
ReopenStep(save) ==
    /\ Becomes(NewRepository(IF save THEN SaveIndex(Cur) ELSE Cur))
    /\ last' = [op |-> "NewRepository", err |-> FALSE, save |-> save,
                stage |-> stage, tracked |-> tracked]
    /\ UNCHANGED call

NextWide ==
    \/ \E path \in WidePaths : AddStep(path, <<"x">>)
    \/ CommitStep(MaxCommitsWide)
    \/ \E name \in Branches : CreateBranchStep(name)
    \/ \E name \in Branches, order \in Orders(WidePaths) : CheckoutBranchStep(name, order)
    \/ \E branchName \in Branches, order \in Orders(WidePaths),
          options \in {o \in MergeOptionSet({FALSE}) : o.Strategy = "AutoMerge"} :
          MergeStep(branchName, options, NoSim, order, MaxCommitsWide)
    \/ \E save \in BOOLEAN : ReopenStep(save)

SpecWide == InitOn(WidePaths) /\ [][NextWide]_vars

----------------------------------------------------------------------------
(* The same machine started in a repository whose branches main and        *)
(* feature have a history already: the state the operations below leave,   *)
(* for every choice of the contents committed.                             *)
(*   save, add, commit           (the root commit, on main)                *)
(*   branch feature                                                        *)
(*   save, add, commit           (on main)                                 *)
(*   checkout feature                                                      *)
(*   save, add, commit           (on feature; left out when ahead = FALSE) *)

HistoryPaths == Paths
HistoryOrder == <<"n">>

\* what the user saves at each path before a commit of the history
Saves == [HistoryPaths -> UserContents]

\* what the user saves and adds once the history is there
HistoryAdds == {<<"x">>}

Fresh ==
    [store |-> EmptyMap, refs |-> EmptyMap, headFile |-> "main",
     stateHEAD |-> "main", stage |-> EmptyMap, tracked |-> EmptyMap,
     worktree |-> EmptyMap, disk |-> [p \in HistoryPaths |-> Absent],
     indexFile |-> EmptyIndex, clock |-> 0]

RECURSIVE SaveAndAdd(_, _, _)
SaveAndAdd(r, saves, k) ==
    IF k > Len(HistoryOrder) THEN r
    ELSE LET path == HistoryOrder[k]
         IN SaveAndAdd(Add([r EXCEPT !.disk[path] = File(saves[path])], path).r,
                       saves, k + 1)

SaveAddCommit(r, saves) == Commit(SaveAndAdd(r, saves, 1), "commit").r

History(root, onMain, onFeature, ahead) ==
    LET r1 == SaveAddCommit(Fresh, root)
        r2 == CreateBranch(r1, "feature").r
        r3 == SaveAddCommit(r2, onMain)
        r4 == CheckoutBranch(r3, "feature", HistoryOrder).r
    IN IF ahead THEN SaveAddCommit(r4, onFeature) ELSE r4

InitHistory ==
    /\ \E root \in Saves, onMain \in Saves, onFeature \in Saves, ahead \in BOOLEAN :
          /\ ~ ahead => onFeature = root
          /\ \E r \in {History(root, onMain, onFeature, ahead)} :
                /\ store = r.store
                /\ refs = r.refs
                /\ headFile = r.headFile
                /\ stateHEAD = r.stateHEAD
                /\ stage = r.stage
                /\ tracked = r.tracked
                /\ worktree = r.worktree
                /\ disk = r.disk
                /\ indexFile = r.indexFile
                /\ clock = r.clock
    /\ last = [op |-> "Initialize", err |-> FALSE]
    /\ call = NoCall

NextHistory ==
    \/ \E path \in HistoryPaths, content \in HistoryAdds : AddStep(path, content)
    \/ CommitStep(MaxCommitsHistory)
    \/ \E name \in Branches : CreateBranchStep(name)
    \/ \E name \in Branches, order \in Orders(HistoryPaths) :
          CheckoutBranchStep(name, order)
    \/ \E branchName \in Branches, options \in MergeOptionSet({FALSE}),
          order \in Orders(HistoryPaths) :
          MergeStep(branchName, options, NoSim, order, MaxMergedHistory)

SpecHistory == InitHistory /\ [][NextHistory]_vars

----------------------------------------------------------------------------
(* MergeTrees on its own: one call on any three trees over TreePaths whose *)
(* blobs are in the store, with any options and any answers of the kernel. *)

TreePaths == {"n", "f.go"}
TreeContents == UserContents \cup {<<>>}

BlobID(content) == Hash(BlobBytes(content))

Trees ==
    UNION {[ps -> {BlobID(c) : c \in TreeContents}] : ps \in SUBSET TreePaths}

Sims == [ourSimilarity : {50}, theirSimilarity : {50, 85},
         combinedSimilarity : Scores]

TreeOptions ==
    [Strategy : Strategies, NoCommit : {FALSE}, Message : {""},
     UseSemantic : BOOLEAN]

InitTrees ==
    /\ store = [id \in {BlobID(c) : c \in TreeContents} |-> id.sha]
    /\ refs = EmptyMap
    /\ headFile = "main"
    /\ stateHEAD = "main"
    /\ stage = EmptyMap
    /\ tracked = EmptyMap
    /\ worktree = EmptyMap
    /\ disk = [p \in TreePaths |-> Absent]
    /\ indexFile = EmptyIndex
    /\ clock = 0
    /\ last = [op |-> "Initialize", err |-> FALSE]
    /\ \E baseTree \in Trees, ourTree \in Trees, theirTree \in Trees,
          options \in TreeOptions, order \in Orders(TreePaths) :
       \E sim \in IF options.UseSemantic THEN Sims ELSE {NoSim} :
          call = [phase |-> "args", baseTree |-> baseTree, ourTree |-> ourTree,
                  theirTree |-> theirTree, options |-> options, sim |-> sim,
                  order |-> order]

MergeTreesStep ==
    /\ call.phase = "args"
    /\ \E mt \in {MergeTrees(store, call.baseTree, call.ourTree, call.theirTree,
                             call.options, call.sim, call.order)} :
          /\ store' = mt.store
          /\ call' = [phase |-> "done", baseTree |-> call.baseTree,
                      ourTree |-> call.ourTree, theirTree |-> call.theirTree,
                      options |-> call.options, sim |-> call.sim,
                      order |-> call.order, tree |-> mt.tree,
                      conflicts |-> mt.conflicts, err |-> mt.err]
    /\ UNCHANGED <<refs, headFile, stateHEAD, stage, tracked, worktree, disk,
                   indexFile, clock, last>>

NextTrees == MergeTreesStep

SpecTrees == InitTrees /\ [][NextTrees]_vars

----------------------------------------------------------------------------
(* MergeFiles on its own: one call on any three files made of the lines    *)
(* a, b, c, each kept, edited (A, B, C) or dropped, under any strategy.    *)

FileLineEdits == <<[keep |-> "a", edit |-> "A"], [keep |-> "b", edit |-> "B"],
                   [keep |-> "c", edit |-> "C"]>>

\* the line at position i of a file that keeps, edits or drops it
FileLine(i, choice) ==
    IF choice = "drop" THEN <<>>
    ELSE IF choice = "edit" THEN << <<FileLineEdits[i].edit>> >>
    ELSE << <<FileLineEdits[i].keep>> >>

FileLineSeqs ==
    {FileLine(1, ch[1]) \o FileLine(2, ch[2]) \o FileLine(3, ch[3]) :
        ch \in [1..Len(FileLineEdits) -> {"keep", "edit", "drop"}]}

FileContents == {Join(lines) : lines \in FileLineSeqs}

InitFiles ==
    /\ store = EmptyMap
    /\ refs = EmptyMap
    /\ headFile = "main"
    /\ stateHEAD = "main"
    /\ stage = EmptyMap
    /\ tracked = EmptyMap
    /\ worktree = EmptyMap
    /\ disk = [p \in Paths |-> Absent]
    /\ indexFile = EmptyIndex
    /\ clock = 0
    /\ last = [op |-> "Initialize", err |-> FALSE]
    /\ \E baseContent \in FileContents, ourContent \in FileContents,
          theirContent \in FileContents, strategy \in Strategies :
          call = [phase |-> "args", baseContent |-> baseContent,
                  ourContent |-> ourContent, theirContent |-> theirContent,
                  strategy |-> strategy]

MergeFilesStep ==
    /\ call.phase = "args"
    /\ \E m \in {MergeFiles(call.baseContent, call.ourContent,
                            call.theirContent, call.strategy)} :
          call' = [phase |-> "merged", baseContent |-> call.baseContent,
                   ourContent |-> call.ourContent,
                   theirContent |-> call.theirContent,
                   strategy |-> call.strategy, content |-> m.content,
                   hasConflict |-> m.hasConflict]
    /\ UNCHANGED <<store, refs, headFile, stateHEAD, stage, tracked, worktree,
                   disk, indexFile, clock, last>>

NextFiles == MergeFilesStep

SpecFiles == InitFiles /\ [][NextFiles]_vars

----------------------------------------------------------------------------
(* The line diff: diffContent, longestCommonSubsequence, convertToEdits    *)
(* and groupEditsIntoChunks.  Line indices are 0-based as in the Go code,  *)
(* -1 standing for "no index"; a[i] of the code is a[i + 1] here.          *)

Max(x, y) == IF x >= y THEN x ELSE y
Min(x, y) == IF x <= y THEN x ELSE y

\* a matrix of LCS lengths that is never filled
LcsLengthsUnfilled(a, b) == [i \in 0..Len(a) |-> [j \in 0..Len(b) |-> 0]]

\* dp[i][j]: the length of the longest common subsequence of a[:i] and b[:j]
LcsLengths(a, b) ==
    LET dp[i \in 0..Len(a), j \in 0..Len(b)] ==
            IF i = 0 \/ j = 0 THEN 0
            ELSE IF a[i] = b[j] THEN dp[i - 1, j - 1] + 1
            ELSE Max(dp[i - 1, j], dp[i, j - 1])
    IN [i \in 0..Len(a) |-> [j \in 0..Len(b) |-> dp[i, j]]]

\* "Build the LCS": walks back from (m, n), prepending each matched pair
RECURSIVE LcsWalk(_, _, _, _, _, _)
LcsWalk(a, b, dp, i, j, lcs) ==
    IF ~ (i > 0 /\ j > 0) THEN lcs
    ELSE IF a[i] = b[j]
         THEN LcsWalk(a, b, dp, i - 1, j - 1, <<<<i - 1, j - 1>>>> \o lcs)
         ELSE IF dp[i - 1][j] > dp[i][j - 1]
              THEN LcsWalk(a, b, dp, i - 1, j, lcs)
              ELSE LcsWalk(a, b, dp, i, j - 1, lcs)

longestCommonSubsequence(a, b) ==
    LcsWalk(a, b, LcsLengths(a, b), Len(a), Len(b), <<>>)

Edit(type, oldIndex, newIndex, lineValue) ==
    [Type |-> type, OldIndex |-> oldIndex, NewIndex |-> newIndex,
     LineValue |-> lineValue]

\* lcsMap[i][j]
InLcs(lcs, i, j) == \E k \in 1..Len(lcs) : lcs[k] = <<i, j>>

RECURSIVE EditLoop(_, _, _, _, _, _)
EditLoop(oldLines, newLines, lcs, oldIdx, newIdx, edits) ==
    IF ~ (oldIdx < Len(oldLines) \/ newIdx < Len(newLines)) THEN edits
    ELSE IF /\ oldIdx < Len(oldLines) /\ newIdx < Len(newLines)
            /\ InLcs(lcs, oldIdx, newIdx)
    THEN EditLoop(oldLines, newLines, lcs, oldIdx + 1, newIdx + 1,
                  Append(edits, Edit("unchanged", oldIdx, newIdx,
                                     oldLines[oldIdx + 1])))
    ELSE IF /\ oldIdx < Len(oldLines)
            /\ \/ newIdx >= Len(newLines)
               \/ /\ oldIdx + 1 < Len(oldLines) /\ newIdx < Len(newLines)
                  /\ InLcs(lcs, oldIdx + 1, newIdx)
    THEN EditLoop(oldLines, newLines, lcs, oldIdx + 1, newIdx,
                  Append(edits, Edit("delete", oldIdx, -1, oldLines[oldIdx + 1])))
    ELSE EditLoop(oldLines, newLines, lcs, oldIdx, newIdx + 1,
                  Append(edits, Edit("insert", -1, newIdx, newLines[newIdx + 1])))

\* a convertToEdits that starts at the second old line
convertToEditsFromSecond(oldLines, newLines, lcs) ==
    EditLoop(oldLines, newLines, lcs, 1, 0, <<>>)

convertToEdits(oldLines, newLines, lcs) ==
    EditLoop(oldLines, newLines, lcs, 0, 0, <<>>)

\* the chunk no line has been added to
EmptyChunk ==
    [OldStart |-> -1, OldLength |-> 0, NewStart |-> -1, NewLength |-> 0,
     Lines |-> <<>>]

\* "Check if this is near a change", for the edit of index i
isNearChange(edits, i, contextLines) ==
    \E j \in Max(0, i - contextLines)..(Min(Len(edits), i + contextLines + 1) - 1) :
        j # i /\ edits[j + 1].Type # "unchanged"

\* prefix + edit.LineValue
PrefixedLine(edit) ==
    <<IF edit.Type = "insert" THEN "+"
      ELSE IF edit.Type = "delete" THEN "-" ELSE " ">> \o edit.LineValue

\* "Add line to chunk", after the starts of a new chunk are set
AddToChunk(chunk, edit) ==
    LET started ==
            IF chunk.OldStart = -1
            THEN [chunk EXCEPT
                    !.OldStart = IF edit.OldIndex # -1 THEN edit.OldIndex + 1 ELSE 0,
                    !.NewStart = IF edit.NewIndex # -1 THEN edit.NewIndex + 1 ELSE 0]
            ELSE chunk
    IN [started EXCEPT
          !.NewLength = IF edit.Type \in {"insert", "unchanged"} THEN @ + 1 ELSE @,
          !.OldLength = IF edit.Type \in {"delete", "unchanged"} THEN @ + 1 ELSE @,
          !.Lines = Append(@, PrefixedLine(edit))]

\* the body of the loop over edits, for the edit of index i;
\* acc = [chunks, currentChunk]
ChunkStep(edits, i, contextLines, acc) ==
    LET edit == edits[i + 1]
        isChange == edit.Type # "unchanged"
        isFirstOrLast == i = 0 \/ i = Len(edits) - 1
    IN IF isChange \/ isFirstOrLast \/ isNearChange(edits, i, contextLines)
       THEN [acc EXCEPT !.currentChunk = AddToChunk(@, edit)]
       ELSE IF Len(acc.currentChunk.Lines) > 0
       THEN [chunks |-> Append(acc.chunks, acc.currentChunk),
             currentChunk |-> EmptyChunk]
       ELSE acc

RECURSIVE ChunkLoop(_, _, _, _)
ChunkLoop(edits, i, contextLines, acc) ==
    IF i >= Len(edits) THEN acc
    ELSE ChunkLoop(edits, i + 1, contextLines,
                   ChunkStep(edits, i, contextLines, acc))

groupEditsIntoChunks(oldLines, newLines, edits, contextLines) ==
    IF Len(edits) = 0 THEN <<>>
    ELSE LET acc == ChunkLoop(edits, 0, contextLines,
                              [chunks |-> <<>>, currentChunk |-> EmptyChunk])
         IN IF Len(acc.currentChunk.Lines) > 0
            THEN Append(acc.chunks, acc.currentChunk)
            ELSE acc.chunks

diffContent(oldContent, newContent, contextLines) ==
    LET oldLines == TrimLast(Split(oldContent))
        newLines == TrimLast(Split(newContent))
        lcs == longestCommonSubsequence(oldLines, newLines)
        edits == convertToEdits(oldLines, newLines, lcs)
    IN groupEditsIntoChunks(oldLines, newLines, edits, contextLines)

\* prefixLines: the lines of content without a last empty one, each after
\* the prefix
prefixLines(content, prefix) ==
    [i \in 1..Len(TrimLast(Split(content))) |->
        <<prefix>> \o TrimLast(Split(content))[i]]

----------------------------------------------------------------------------
(* diffContent on its own: one call on any two files of at most            *)
(* MaxDiffLines lines drawn from DiffLines, with up to MaxContextLines     *)
(* lines of context.                                                       *)

MaxDiffLines == 5
MaxContextLines == 2

DiffLines == {<<"a">>, <<"b">>}

DiffContents ==
    {Join(lines) : lines \in UNION {[1..n -> DiffLines] : n \in 0..MaxDiffLines}}

InitDiff ==
    /\ store = EmptyMap
    /\ refs = EmptyMap
    /\ headFile = "main"
    /\ stateHEAD = "main"
    /\ stage = EmptyMap
    /\ tracked = EmptyMap
    /\ worktree = EmptyMap
    /\ disk = [p \in Paths |-> Absent]
    /\ indexFile = EmptyIndex
    /\ clock = 0
    /\ last = [op |-> "Initialize", err |-> FALSE]
    /\ \E oldContent \in DiffContents, newContent \in DiffContents,
          contextLines \in 0..MaxContextLines :
          call = [phase |-> "args", oldContent |-> oldContent,
                  newContent |-> newContent, contextLines |-> contextLines]

DiffContentStep ==
    /\ call.phase = "args"
    /\ call' = [phase |-> "diffed", oldContent |-> call.oldContent,
                newContent |-> call.newContent,
                contextLines |-> call.contextLines,
                chunks |-> diffContent(call.oldContent, call.newContent,
                                       call.contextLines)]
    /\ UNCHANGED <<store, refs, headFile, stateHEAD, stage, tracked, worktree,
                   disk, indexFile, clock, last>>

\* one path of the loop of diffTrees, without the semantic diff: the path
\* has an entry in tree A (okA), in tree B (okB) or in both, and the blobs
\* of the entries are the two contents, with a newline at the end or not
DiffTreesStep ==
    /\ call.phase = "args"
    /\ \E okA \in BOOLEAN, okB \in BOOLEAN, newline \in BOOLEAN :
          /\ okA \/ okB
          /\ LET end == IF newline THEN <<NL>> ELSE <<>>
                 blobContentA == call.oldContent \o end
                 blobContentB == call.newContent \o end
             IN call' = [phase |-> "compared", okA |-> okA, okB |-> okB,
                         blobContentA |-> blobContentA,
                         blobContentB |-> blobContentB,
                         contextLines |-> call.contextLines,
                         chunks |->
                            IF okA /\ ~ okB
                            THEN <<[OldStart |-> 1,
                                    OldLength |-> Len(Split(blobContentA)),
                                    NewStart |-> 0, NewLength |-> 0,
                                    Lines |-> prefixLines(blobContentA, "-")]>>
                            ELSE IF ~ okA /\ okB
                            THEN <<[OldStart |-> 0, OldLength |-> 0,
                                    NewStart |-> 1,
                                    NewLength |-> Len(Split(blobContentB)),
                                    Lines |-> prefixLines(blobContentB, "+")]>>
                            ELSE IF blobContentA # blobContentB
                            THEN diffContent(blobContentA, blobContentB,
                                             call.contextLines)
                            ELSE <<>>]
    /\ UNCHANGED <<store, refs, headFile, stateHEAD, stage, tracked, worktree,
                   disk, indexFile, clock, last>>

NextDiff ==
    \/ DiffContentStep
    \/ DiffTreesStep

SpecDiff == InitDiff /\ [][NextDiff]_vars

----------------------------------------------------------------------------
(* FindMergeBase on its own: one call on any object store of at most       *)
(* MaxGraphCommits objects.  FindMergeBase reads whatever file is filed    *)
(* under an id, so an object here is any commit (with any parents, also    *)
(* ones that are missing or that lead back to it), a file that is not a    *)
(* commit, or no file at all.                                              *)

MaxGraphCommits == 3

GraphID(n) == [sha |-> [kind |-> "name", n |-> n]]
GraphIDs == {GraphID(n) : n \in 1..MaxGraphCommits}

\* a commit has a second parent only when it has a first (CreateMergeCommit)
GraphObjects ==
    {CommitBytes(EmptyID, parent, EmptyID, "", 0) : parent \in GraphIDs \cup {EmptyID}}
      \cup {CommitBytes(EmptyID, parent, parent2, "", 0) :
               parent \in GraphIDs, parent2 \in GraphIDs}
      \cup {BlobBytes(<<>>)}

GraphStores == UNION {[present -> GraphObjects] : present \in SUBSET GraphIDs}

InitGraph ==
    /\ store \in GraphStores
    /\ refs = EmptyMap
    /\ headFile = "main"
    /\ stateHEAD = "main"
    /\ stage = EmptyMap
    /\ tracked = EmptyMap
    /\ worktree = EmptyMap
    /\ disk = [p \in Paths |-> Absent]
    /\ indexFile = EmptyIndex
    /\ clock = 0
    /\ last = [op |-> "Initialize", err |-> FALSE]
    /\ \E commitA \in GraphIDs, commitB \in GraphIDs :
          call = [phase |-> "args", commitA |-> commitA, commitB |-> commitB]

FindMergeBaseStep ==
    /\ call.phase = "args"
    /\ \E base \in {FindMergeBase(store, call.commitA, call.commitB)} :
          call' = [phase |-> "found", commitA |-> call.commitA,
                   commitB |-> call.commitB, found |-> base.found,
                   commit |-> base.commit]
    /\ UNCHANGED <<store, refs, headFile, stateHEAD, stage, tracked, worktree,
                   disk, indexFile, clock, last>>

NextGraph == FindMergeBaseStep

SpecGraph == InitGraph /\ [][NextGraph]_vars

----------------------------------------------------------------------------
(* Concurrent writers of one content.  Each writer runs the store of Add:  *)
(* it hashes the content and calls storeObject, whose os.WriteFile opens   *)
(* objects/<id> with O_CREATE|O_TRUNC and then writes the bytes from its   *)
(* own offset, one write at a time.  MkdirAll is idempotent and left out.  *)
(* call.offset[w] is -1 before writer w has opened the file, and the       *)
(* number of tokens it has written after; store[id] is the file so far.    *)

MaxWriters == 2

Writers == 1..MaxWriters

\* a writer that opened the file with O_APPEND
WriteAppend(data, offset, token) == Append(data, token)

\* write(2) of one token at offset: overwrites, or extends past a hole
WriteAt(data, offset, token) ==
    [k \in 1..Max(Len(data), offset + 1) |->
        IF k = offset + 1 THEN token
        ELSE IF k <= Len(data) THEN data[k] ELSE "\\0"]

InitPut ==
    /\ store \in {EmptyMap, storeObject(EmptyMap, BlobID(<<"z">>), BlobBytes(<<"z">>))}
    /\ refs = EmptyMap
    /\ headFile = "main"
    /\ stateHEAD = "main"
    /\ stage = EmptyMap
    /\ tracked = EmptyMap
    /\ worktree = EmptyMap
    /\ disk = [p \in Paths |-> Absent]
    /\ indexFile = EmptyIndex
    /\ clock = 0
    /\ last = [op |-> "Initialize", err |-> FALSE]
    /\ \E content \in UserContents :
          call = [phase |-> "put", content |-> content, before |-> store,
                  objID |-> [w \in Writers |-> EmptyID],
                  offset |-> [w \in Writers |-> -1]]

\* hash := sha256.Sum256(content), then os.WriteFile opens and truncates
PutOpenStep(w) ==
    /\ call.phase = "put"
    /\ call.offset[w] = -1
    /\ \E objID \in {Hash(BlobBytes(call.content))} :
          /\ store' = storeObject(store, objID, BlobBytes(<<>>))
          /\ call' = [call EXCEPT !.objID[w] = objID, !.offset[w] = 0]
    /\ UNCHANGED <<refs, headFile, stateHEAD, stage, tracked, worktree, disk,
                   indexFile, clock, last>>

\* the next write of os.WriteFile; the file is closed after the last one
PutWriteStep(w) ==
    /\ call.phase = "put"
    /\ call.offset[w] >= 0 /\ call.offset[w] < Len(call.content)
    /\ store' = storeObject(store, call.objID[w],
                    BlobBytes(WriteAt(readObject(store, call.objID[w]).data,
                                      call.offset[w],
                                      call.content[call.offset[w] + 1])))
    /\ call' = [call EXCEPT !.offset[w] = @ + 1]
    /\ UNCHANGED <<refs, headFile, stateHEAD, stage, tracked, worktree, disk,
                   indexFile, clock, last>>

NextPut ==
    \/ \E w \in Writers : PutOpenStep(w)
    \/ \E w \in Writers : PutWriteStep(w)

SpecPut == InitPut /\ [][NextPut]_vars

----------------------------------------------------------------------------
(* resolveReference on the files under .kit, whatever they hold.  A file   *)
(* is a commit id or the text "ref: <name>"; refs maps the names of the    *)
(* files that exist to what they hold.  resolveReferenceFile is the Go     *)
(* resolveReference on these files and returns [err, value], value being   *)
(* the string returned.                                                    *)

RefNames == {"HEAD", "refs/heads/main", "refs/heads/feature"}

\* the text of a reference file
DirectRef(commitID) == [kind |-> "direct", id |-> commitID]
SymbolicRef(name) == [kind |-> "symbolic", target |-> name]

\* content[:4] == "ref:" is files[ref].kind = "symbolic"
resolveReferenceFile(files, ref) ==
    IF ~ Has(files, ref) THEN [err |-> TRUE, value |-> DirectRef(EmptyID)]
    ELSE IF ref = "HEAD" /\ files[ref].kind = "symbolic"
    THEN IF ~ Has(files, files[ref].target)
         THEN [err |-> TRUE, value |-> DirectRef(EmptyID)]
         ELSE [err |-> FALSE, value |-> files[files[ref].target]]
    ELSE [err |-> FALSE, value |-> files[ref]]

InitRefs ==
    /\ store = EmptyMap
    /\ refs \in UNION {[present -> {DirectRef(GraphID(1))}
                                      \cup {SymbolicRef(name) : name \in RefNames}] :
                          present \in SUBSET RefNames}
    /\ headFile = "main"
    /\ stateHEAD = "main"
    /\ stage = EmptyMap
    /\ tracked = EmptyMap
    /\ worktree = EmptyMap
    /\ disk = [p \in Paths |-> Absent]
    /\ indexFile = EmptyIndex
    /\ clock = 0
    /\ last = [op |-> "Initialize", err |-> FALSE]
    /\ \E ref \in RefNames : call = [phase |-> "args", ref |-> ref]

ResolveReferenceStep ==
    /\ call.phase = "args"
    /\ \E o \in {resolveReferenceFile(refs, call.ref)} :
          call' = [phase |-> "resolved", ref |-> call.ref, err |-> o.err,
                   value |-> o.value]
    /\ UNCHANGED <<store, refs, headFile, stateHEAD, stage, tracked, worktree,
                   disk, indexFile, clock, last>>

NextRefs == ResolveReferenceStep

SpecRefs == InitRefs /\ [][NextRefs]_vars

----------------------------------------------------------------------------
(* The loops of FindMergeBase, convertToEdits and groupEditsIntoChunks,    *)
(* one iteration a step.  call.phase says which loop the call is in:       *)
(*   "historyA", "visit"  - the two loops of FindMergeBase                 *)
(*   "edits", "chunks"    - the loops of convertToEdits and of             *)
(*                          groupEditsIntoChunks, inside diffContent       *)
(*   "returned"           - the function has returned                      *)
(* FindMergeBase reads the parent of a commit only, so the stores here     *)
(* hold commits without a second parent, files that are no commits and     *)
(* missing files; parents may be missing or lead back to the commit.       *)

MaxLoopLines == 3

InitLoops ==
    /\ store \in UNION {[present -> {CommitBytes(EmptyID, parent, EmptyID, "", 0) :
                                        parent \in GraphIDs \cup {EmptyID}}
                                      \cup {BlobBytes(<<>>)}] :
                           present \in SUBSET GraphIDs}
    /\ refs = EmptyMap
    /\ headFile = "main"
    /\ stateHEAD = "main"
    /\ stage = EmptyMap
    /\ tracked = EmptyMap
    /\ worktree = EmptyMap
    /\ disk = [p \in Paths |-> Absent]
    /\ indexFile = EmptyIndex
    /\ clock = 0
    /\ last = [op |-> "Initialize", err |-> FALSE]
    /\ \/ \E commitA \in GraphIDs, commitB \in GraphIDs :
             call = [phase |-> "historyA", commitA |-> commitA, commitB |-> commitB,
                     queue |-> <<commitA>>, historyA |-> {}, visited |-> {}]
       \/ /\ store = EmptyMap
          /\ \E oldLines, newLines \in UNION {[1..n -> DiffLines] : n \in 0..MaxLoopLines},
                contextLines \in 0..MaxContextLines :
                call = [phase |-> "edits", oldLines |-> oldLines, newLines |-> newLines,
                        lcs |-> longestCommonSubsequence(oldLines, newLines),
                        contextLines |-> contextLines,
                        oldIdx |-> 0, newIdx |-> 0, edits |-> <<>>]

\* a first loop that never marks a commit as part of history A
HistoryLoopNoMark ==
    /\ call.phase = "historyA"
    /\ call' = IF call.queue = <<>>
               THEN [call EXCEPT !.phase = "visit", !.queue = <<call.commitB>>]
               ELSE [call EXCEPT !.queue = Tail(@) \o Enqueued(store, Head(@))]
    /\ UNCHANGED <<store, refs, headFile, stateHEAD, stage, tracked, worktree,
                   disk, indexFile, clock, last>>

\* one iteration of "for len(queue) > 0" over the history of commit A, or
\* the start of the second loop when the queue is empty
HistoryLoopStep ==
    /\ call.phase = "historyA"
    /\ call' = IF call.queue = <<>>
               THEN [call EXCEPT !.phase = "visit", !.queue = <<call.commitB>>]
               ELSE IF Head(call.queue) \in call.historyA
               THEN [call EXCEPT !.queue = Tail(@)]
               ELSE [call EXCEPT !.queue = Tail(@) \o Enqueued(store, Head(@)),
                                 !.historyA = @ \cup {Head(call.queue)}]
    /\ UNCHANGED <<store, refs, headFile, stateHEAD, stage, tracked, worktree,
                   disk, indexFile, clock, last>>

\* one iteration of the loop from commit B, or the return after it
VisitLoopStep ==
    /\ call.phase = "visit"
    /\ call' = IF call.queue = <<>>
               THEN [call EXCEPT !.phase = "returned"]
               ELSE IF Head(call.queue) \in call.visited
               THEN [call EXCEPT !.queue = Tail(@)]
               ELSE IF Head(call.queue) \in call.historyA
               THEN [call EXCEPT !.phase = "returned", !.queue = <<Head(@)>>,
                                 !.visited = @ \cup {Head(call.queue)}]
               ELSE [call EXCEPT !.queue = Tail(@) \o Enqueued(store, Head(@)),
                                 !.visited = @ \cup {Head(call.queue)}]
    /\ UNCHANGED <<store, refs, headFile, stateHEAD, stage, tracked, worktree,
                   disk, indexFile, clock, last>>

\* one iteration of "for oldIdx < len(oldLines) || newIdx < len(newLines)";
\* an iteration that takes none of the three branches changes nothing.
\* When the loop ends, groupEditsIntoChunks starts, and returns at once
\* when there are no edits.
EditLoopStep ==
    /\ call.phase = "edits"
    /\ LET oldIdx == call.oldIdx
           newIdx == call.newIdx
           oldLines == call.oldLines
           newLines == call.newLines
       IN call' =
            IF ~ (oldIdx < Len(oldLines) \/ newIdx < Len(newLines))
            THEN IF Len(call.edits) = 0
                 THEN [phase |-> "returned", chunks |-> <<>>]
                 ELSE [phase |-> "chunks", edits |-> call.edits,
                       contextLines |-> call.contextLines, i |-> 0,
                       acc |-> [chunks |-> <<>>, currentChunk |-> EmptyChunk]]
            ELSE IF /\ oldIdx < Len(oldLines) /\ newIdx < Len(newLines)
                    /\ InLcs(call.lcs, oldIdx, newIdx)
            THEN [call EXCEPT !.oldIdx = @ + 1, !.newIdx = @ + 1,
                    !.edits = Append(@, Edit("unchanged", oldIdx, newIdx,
                                             oldLines[oldIdx + 1]))]
            ELSE IF /\ oldIdx < Len(oldLines)
                    /\ \/ newIdx >= Len(newLines)
                       \/ /\ oldIdx + 1 < Len(oldLines) /\ newIdx < Len(newLines)
                          /\ InLcs(call.lcs, oldIdx + 1, newIdx)
            THEN [call EXCEPT !.oldIdx = @ + 1,
                    !.edits = Append(@, Edit("delete", oldIdx, -1,
                                             oldLines[oldIdx + 1]))]
            ELSE IF newIdx < Len(newLines)
            THEN [call EXCEPT !.newIdx = @ + 1,
                    !.edits = Append(@, Edit("insert", -1, newIdx,
                                             newLines[newIdx + 1]))]
            ELSE call
    /\ UNCHANGED <<store, refs, headFile, stateHEAD, stage, tracked, worktree,
                   disk, indexFile, clock, last>>

\* one iteration of "for i, edit := range edits", or the return after the
\* last one, with the last chunk added
ChunkLoopStep ==
    /\ call.phase = "chunks"
    /\ call' = IF call.i < Len(call.edits)
               THEN [call EXCEPT !.i = @ + 1,
                       !.acc = ChunkStep(call.edits, call.i, call.contextLines, @)]
               ELSE [phase |-> "returned",
                     chunks |-> IF Len(call.acc.currentChunk.Lines) > 0
                                THEN Append(call.acc.chunks, call.acc.currentChunk)
                                ELSE call.acc.chunks]
    /\ UNCHANGED <<store, refs, headFile, stateHEAD, stage, tracked, worktree,
                   disk, indexFile, clock, last>>

NextLoops ==
    \/ HistoryLoopStep
    \/ VisitLoopStep
    \/ EditLoopStep
    \/ ChunkLoopStep

\* a running function executes its next iteration: the loops are sequential
\* code of one goroutine, so a step that is possible is taken
SpecLoops == InitLoops /\ [][NextLoops]_vars /\ WF_vars(NextLoops)

----------------------------------------------------------------------------
(* Claims about MergeTrees, on the finished calls of SpecTrees *)

Done == call.phase = "done"

ConflictPaths(conflicts) == {conflicts[k].Path : k \in 1..Len(conflicts)}

\* the content of the blob a tree holds at path
ContentAt(tree, path) == readObject(store, tree[path]).data

\* the two sides hold different entries at path and neither kept base's
Diverged(path) ==
    /\ Has(call.ourTree, path) /\ Has(call.theirTree, path)
    /\ call.ourTree[path] # call.theirTree[path]
    /\ Has(call.baseTree, path) =>
          /\ call.baseTree[path] # call.ourTree[path]
          /\ call.baseTree[path] # call.theirTree[path]

\* the file merge of the two sides at path finds a conflict: the same call
\* under strategy AutoMerge lists the path among its conflicts
ConflictDetected(path) ==
    path \in ConflictPaths(
        MergeTrees(store, call.baseTree, call.ourTree, call.theirTree,
                   [call.options EXCEPT !.Strategy = "AutoMerge"],
                   call.sim, call.order).conflicts)

\* C7: under strategy Ours (Theirs) every diverged path on which a conflict
\* is detected is in the merged tree with exactly ours' (theirs') content, and
\* no path present on both sides is left out of the merged tree.
C7_StrategyPicksSide ==
    (Done /\ call.options.Strategy \in {"Ours", "Theirs"}) =>
        \A path \in TreePaths :
            /\ (Has(call.ourTree, path) /\ Has(call.theirTree, path))
                   => Has(call.tree, path)
            /\ (Diverged(path) /\ ConflictDetected(path)) =>
                   /\ Has(call.tree, path)
                   /\ ContentAt(call.tree, path) =
                          IF call.options.Strategy = "Ours"
                          THEN ContentAt(call.ourTree, path)
                          ELSE ContentAt(call.theirTree, path)

\* C8: under strategy Manual every path whose ours and theirs entries differ
\* (both changed relative to base, or both added) is in the conflict list and
\* has no entry in the merged tree.
C8_ManualNeverAutoMerges ==
    (Done /\ call.options.Strategy = "Manual") =>
        \A path \in TreePaths :
            Diverged(path) =>
                /\ path \in ConflictPaths(call.conflicts)
                /\ ~ Has(call.tree, path)

\* C10: a path in base and ours but not in theirs is kept with ours' entry
\* and gets no conflict, whether or not ours modified it; and the same with
\* ours and theirs exchanged.
C10_DeletionKeepsOtherSide ==
    Done =>
        \A path \in TreePaths :
            /\ (Has(call.baseTree, path) /\ Has(call.ourTree, path)
                    /\ ~ Has(call.theirTree, path)) =>
                   /\ Has(call.tree, path)
                   /\ call.tree[path] = call.ourTree[path]
                   /\ path \notin ConflictPaths(call.conflicts)
            /\ (Has(call.baseTree, path) /\ ~ Has(call.ourTree, path)
                    /\ Has(call.theirTree, path)) =>
                   /\ Has(call.tree, path)
                   /\ call.tree[path] = call.theirTree[path]
                   /\ path \notin ConflictPaths(call.conflicts)

\* a finished call in which theirs deleted a path that ours had modified
C10_Witness ==
    /\ Done
    /\ \E path \in TreePaths :
          /\ Has(call.baseTree, path) /\ Has(call.ourTree, path)
          /\ ~ Has(call.theirTree, path)
          /\ call.baseTree[path] # call.ourTree[path]
          /\ call.tree[path] = call.ourTree[path]

\* the blobs the store held before the call
InitialBlobs == {BlobID(c) : c \in TreeContents}

\* exactly one side's entry at path differs from base's
OneSideChanged(path) ==
    /\ Has(call.baseTree, path) /\ Has(call.ourTree, path)
    /\ Has(call.theirTree, path)
    /\ (call.ourTree[path] = call.baseTree[path])
           # (call.theirTree[path] = call.baseTree[path])

\* both sides hold the same entry at path: the same edit or the same new file
SameOnBothSides(path) ==
    /\ Has(call.ourTree, path) /\ Has(call.theirTree, path)
    /\ call.ourTree[path] = call.theirTree[path]

\* C11: a path in base, ours and theirs of which only one side's entry
\* differs from base is merged to the changed side's entry; a path on which
\* both sides hold the identical entry (the same edit, or the same newly
\* added file) is merged to that entry; such a path gets no conflict, and a
\* call all of whose paths are of these kinds stores no new blob.
C11_TrivialCasesKeepEntry ==
    Done =>
        /\ \A path \in TreePaths :
              /\ OneSideChanged(path) =>
                    /\ Has(call.tree, path)
                    /\ call.tree[path] =
                          IF call.ourTree[path] # call.baseTree[path]
                          THEN call.ourTree[path] ELSE call.theirTree[path]
                    /\ path \notin ConflictPaths(call.conflicts)
              /\ SameOnBothSides(path) =>
                    /\ Has(call.tree, path)
                    /\ call.tree[path] = call.ourTree[path]
                    /\ path \notin ConflictPaths(call.conflicts)
        /\ (\A path \in AllPaths(call.baseTree, call.ourTree, call.theirTree) :
               OneSideChanged(path) \/ SameOnBothSides(path))
              => DOMAIN store = InitialBlobs

\* a finished call with one path changed by theirs only and the other path
\* given the same new file by both sides
C11_Witness ==
    /\ Done
    /\ \E path \in TreePaths :
          /\ OneSideChanged(path)
          /\ call.theirTree[path] # call.baseTree[path]
          /\ call.tree[path] = call.theirTree[path]
    /\ \E path \in TreePaths :
          /\ SameOnBothSides(path) /\ ~ Has(call.baseTree, path)
          /\ call.tree[path] = call.ourTree[path]
    /\ DOMAIN store = InitialBlobs

\* the number of conflict records for path
Records(conflicts, path) ==
    Cardinality({k \in 1..Len(conflicts) : conflicts[k].Path = path})

\* C12: every path of base, ours and theirs ends as an entry of the merged
\* tree, as a conflict record, or left out, and no other path does; a path is
\* left out exactly when it is absent from both ours and theirs; a path on
\* one side only and not in base is kept with that side's entry; under
\* AutoMerge or Manual no path has both a conflict record and an entry; no
\* path has two conflict records.
C12_OneOutcomePerPath ==
    Done =>
        /\ (DOMAIN call.tree) \cup ConflictPaths(call.conflicts)
              \subseteq AllPaths(call.baseTree, call.ourTree, call.theirTree)
        /\ \A path \in TreePaths :
              /\ (~ Has(call.tree, path) /\ Records(call.conflicts, path) = 0)
                    <=> (~ Has(call.ourTree, path) /\ ~ Has(call.theirTree, path))
              /\ (~ Has(call.baseTree, path) /\ Has(call.ourTree, path)
                      /\ ~ Has(call.theirTree, path)) =>
                    (Has(call.tree, path) /\ call.tree[path] = call.ourTree[path])
              /\ (~ Has(call.baseTree, path) /\ ~ Has(call.ourTree, path)
                      /\ Has(call.theirTree, path)) =>
                    (Has(call.tree, path) /\ call.tree[path] = call.theirTree[path])
              /\ call.options.Strategy \in {"AutoMerge", "Manual"} =>
                    ~ (Has(call.tree, path) /\ Records(call.conflicts, path) > 0)
              /\ Records(call.conflicts, path) <= 1

\* a finished call under AutoMerge with a conflict record for one path while
\* the other path, new on theirs only, is kept
C12_Witness ==
    /\ Done
    /\ call.options.Strategy = "AutoMerge"
    /\ \E path, other \in TreePaths :
          /\ Has(call.baseTree, path)
          /\ Records(call.conflicts, path) = 1 /\ ~ Has(call.tree, path)
          /\ ~ Has(call.baseTree, other) /\ ~ Has(call.ourTree, other)
          /\ Has(call.theirTree, other)
          /\ call.tree[other] = call.theirTree[other]

\* both sides added path, with different content, and base has no version
BothAddedDifferently(path) ==
    /\ ~ Has(call.baseTree, path)
    /\ Has(call.ourTree, path) /\ Has(call.theirTree, path)
    /\ call.ourTree[path] # call.theirTree[path]

\* the outcome at path is the one the file merge m calls for
FollowsFileMerge(path, m) ==
    /\ (Records(call.conflicts, path) > 0) <=> m.hasConflict
    /\ m.hasConflict => ~ Has(call.tree, path)
    /\ ~ m.hasConflict =>
          /\ Has(call.tree, path)
          /\ call.tree[path] = BlobID(m.content)
          /\ readable(store, call.tree[path])

\* C13: under AutoMerge a path added on both sides with different content
\* and no base version gets the outcome of the three-way file merge with an
\* empty base: a conflict only if that merge is unresolved, and otherwise the
\* merged content as its entry.
C13_BothAddedRunsFileMerge ==
    (Done /\ call.options.Strategy = "AutoMerge") =>
        \A path \in TreePaths :
            BothAddedDifferently(path) =>
                FollowsFileMerge(path,
                    IF call.options.UseSemantic /\ isCodeFile(path)
                    THEN SemanticMergeFiles(<<>>, ContentAt(call.ourTree, path),
                                            ContentAt(call.theirTree, path),
                                            call.sim)
                    ELSE MergeFiles(<<>>, ContentAt(call.ourTree, path),
                                    ContentAt(call.theirTree, path), "AutoMerge"))

\* C13, amended: under AutoMerge a path added on both sides with different
\* content and no base version gets a conflict record and no entry, unless
\* semantic merging is on and the path is a code file: then it gets the
\* outcome of SemanticMergeFiles with an empty base, a conflict only if that
\* merge is unresolved and otherwise the merged content as its entry.
C13_BothAddedConflictsUnlessSemantic ==
    (Done /\ call.options.Strategy = "AutoMerge") =>
        \A path \in TreePaths :
            BothAddedDifferently(path) =>
                FollowsFileMerge(path,
                    IF call.options.UseSemantic /\ isCodeFile(path)
                    THEN SemanticMergeFiles(<<>>, ContentAt(call.ourTree, path),
                                            ContentAt(call.theirTree, path),
                                            call.sim)
                    ELSE [content |-> <<>>, hasConflict |-> TRUE])

\* a finished semantic call under AutoMerge in which both paths were added
\* differently on both sides: the code file is merged and stored, the other
\* file conflicts
C13_Witness ==
    /\ Done
    /\ call.options.Strategy = "AutoMerge" /\ call.options.UseSemantic
    /\ \A path \in TreePaths : BothAddedDifferently(path)
    /\ Has(call.tree, "f.go") /\ Records(call.conflicts, "f.go") = 0
    /\ ~ Has(call.tree, "n") /\ Records(call.conflicts, "n") = 1

----------------------------------------------------------------------------
(* Claims about MergeFiles, on the finished calls of SpecFiles *)

Merged == call.phase = "merged"

\* the lines of a file
LinesOf(content) == TrimLast(Split(content))

\* the positions at which two files of the same number of lines differ
EditedLines(fromLines, toLines) ==
    {k \in 1..Len(fromLines) : fromLines[k] # toLines[k]}

\* ours and theirs each differ from base by one edited line, at positions
\* ourEdit and theirEdit
SingleLineEdits(ourEdit, theirEdit) ==
    /\ Len(LinesOf(call.ourContent)) = Len(LinesOf(call.baseContent))
    /\ Len(LinesOf(call.theirContent)) = Len(LinesOf(call.baseContent))
    /\ EditedLines(LinesOf(call.baseContent), LinesOf(call.ourContent)) = {ourEdit}
    /\ EditedLines(LinesOf(call.baseContent), LinesOf(call.theirContent)) = {theirEdit}

\* C14: on three files that differ only by single-line edits at different
\* line positions (base a,b,c / ours a,B,c / theirs a,b,C) MergeFiles returns
\* the content with both edits applied in line order (a,B,C) and no conflict.
C14_DisjointEditsBothApplied ==
    Merged =>
        \A ourEdit, theirEdit \in 1..Len(FileLineEdits) :
            (ourEdit # theirEdit /\ SingleLineEdits(ourEdit, theirEdit)) =>
                /\ ~ call.hasConflict
                /\ call.content =
                      Join([k \in 1..Len(LinesOf(call.baseContent)) |->
                               IF k = ourEdit THEN LinesOf(call.ourContent)[k]
                               ELSE LinesOf(call.theirContent)[k]])

\* C15: on files where ours and theirs replace the same base line with
\* different lines (base x / ours y / theirs z) MergeFiles under AutoMerge or
\* Manual reports a conflict and returns a single marker block holding both
\* the ours line and the theirs line.
C15_SameLineEditsConflict ==
    (Merged /\ call.strategy \in {"AutoMerge", "Manual"}) =>
        \A edit \in 1..Len(FileLineEdits) :
            (/\ SingleLineEdits(edit, edit)
             /\ LinesOf(call.ourContent)[edit] # LinesOf(call.theirContent)[edit]) =>
                /\ call.hasConflict
                /\ call.content = ConflictBlock(call.ourContent, call.theirContent)

----------------------------------------------------------------------------
(* Claims about diffContent, on the finished calls of SpecDiff *)

Diffed == call.phase = "diffed"

\* C17: for every content X, empty or not, and every contextLines >= 0,
\* diffContent(X, X) returns no hunk.
C17_SameContentNoHunks ==
    (Diffed /\ call.oldContent = call.newContent) => call.chunks = <<>>

\* the lines a hunk holds of the old content (removed and context lines) and
\* of the new content (added and context lines), without their prefixes
OldSide(chunk) == SelectSeq(chunk.Lines, LAMBDA l : l[1] # "+")
NewSide(chunk) == SelectSeq(chunk.Lines, LAMBDA l : l[1] # "-")
Unprefixed(prefixed) == [k \in 1..Len(prefixed) |-> Tail(prefixed[k])]

\* lines with the OldLength lines from line OldStart on replaced by the new
\* side of the hunk; a hunk without old lines is inserted after line OldStart
ApplyChunk(lines, chunk) ==
    LET before == IF chunk.OldLength = 0 THEN chunk.OldStart
                  ELSE chunk.OldStart - 1
        after == before + chunk.OldLength + 1
    IN [k \in 1..Min(Max(before, 0), Len(lines)) |-> lines[k]]
         \o Unprefixed(NewSide(chunk))
         \o [k \in 1..Max(Len(lines) - Max(after, 1) + 1, 0) |->
                lines[Max(after, 1) + k - 1]]

\* the hunks applied from the last to the first, each at its old start line
RECURSIVE ApplyChunks(_, _)
ApplyChunks(lines, chunks) ==
    IF chunks = <<>> THEN lines
    ELSE ApplyChunks(ApplyChunk(lines, chunks[Len(chunks)]),
                     SubSeq(chunks, 1, Len(chunks) - 1))

\* C18: applying the hunks of diffContent(A, B) to the lines of A, at each
\* hunk's old start line replacing its removed and context lines by its
\* added and context lines, yields exactly the lines of B.
C18_ApplyingHunksGivesNew ==
    Diffed =>
        ApplyChunks(LinesOf(call.oldContent), call.chunks) = LinesOf(call.newContent)

\* the lines start .. start + length - 1 of lines are the lines side
CoversAt(lines, start, length, side) ==
    /\ length = Len(side)
    /\ length > 0 =>
          /\ start >= 1 /\ start + length - 1 <= Len(lines)
          /\ \A k \in 1..length : lines[start + k - 1] = side[k]

\* C19: every hunk reports as OldStart (NewStart) the 1-based number of the
\* first line it covers in the old (new) content and as OldLength
\* (NewLength) the number of lines it covers there, also when its first line
\* is an insertion or a deletion.
C19_HunkHeaderNumbers ==
    Diffed =>
        \A k \in 1..Len(call.chunks) :
            /\ CoversAt(LinesOf(call.oldContent), call.chunks[k].OldStart,
                        call.chunks[k].OldLength,
                        Unprefixed(OldSide(call.chunks[k])))
            /\ CoversAt(LinesOf(call.newContent), call.chunks[k].NewStart,
                        call.chunks[k].NewLength,
                        Unprefixed(NewSide(call.chunks[k])))

\* the edit script of the call
CallEdits ==
    convertToEdits(LinesOf(call.oldContent), LinesOf(call.newContent),
                   longestCommonSubsequence(LinesOf(call.oldContent),
                                            LinesOf(call.newContent)))

Changed(i) == CallEdits[i].Type # "unchanged"

\* the place in the edit script of the first line of a hunk, found from the
\* start the hunk reports on the side its first line belongs to
FirstEdit(chunk) ==
    CHOOSE i \in 1..Len(CallEdits) :
        IF chunk.Lines[1][1] = "+"
        THEN CallEdits[i].NewIndex + 1 = chunk.NewStart
        ELSE CallEdits[i].OldIndex + 1 = chunk.OldStart

\* the places in the edit script of the lines of a hunk
EditsOf(chunk) == FirstEdit(chunk)..(FirstEdit(chunk) + Len(chunk.Lines) - 1)

\* C20: every hunk contains at least one added or removed line; an unchanged
\* line is in a hunk only if it lies within contextLines lines of a changed
\* line; two changes whose context windows overlap are in the same hunk.
C20_HunksAreChangesWithContext ==
    Diffed =>
        /\ \A k \in 1..Len(call.chunks) :
              /\ \E i \in EditsOf(call.chunks[k]) : Changed(i)
              /\ \A i \in EditsOf(call.chunks[k]) :
                    ~ Changed(i) =>
                        \E j \in 1..Len(CallEdits) :
                            /\ Changed(j)
                            /\ i - j <= call.contextLines
                            /\ j - i <= call.contextLines
        /\ \A i, j \in 1..Len(CallEdits) :
              (/\ Changed(i) /\ Changed(j)
               /\ i < j /\ j - i <= 2 * call.contextLines) =>
                  \E k \in 1..Len(call.chunks) :
                      {i, j} \subseteq EditsOf(call.chunks[k])

----------------------------------------------------------------------------
(* Claims about Merge and CheckoutBranch.  A step with last'.op = "Merge"   *)
(* is a call Merge(last'.branchName, last'.options); the unprimed          *)
(* variables are the repository before the call, the primed ones after.    *)

MergeCalled == last'.op = "Merge"

\* the branches named exist and nothing is staged
MergePossible ==
    /\ refExists(Cur, headFile)
    /\ refExists(Cur, last'.branchName)
    /\ DOMAIN stage = {}

OurTip == refs[headFile]
TheirTip == refs[last'.branchName]

\* the commits reachable from the commits of S through parent or parent2
RECURSIVE Reachable(_, _)
Reachable(st, S) ==
    LET more == {c \in UNION {{readObject(st, d).parent, readObject(st, d).parent2} :
                                 d \in {e \in S : IsCommit(st, e)}} : c # EmptyID}
    IN IF more \subseteq S THEN S ELSE Reachable(st, S \cup more)

\* the call is not a fast-forward: the merge base differs from our tip
ThreeWay ==
    /\ MergePossible
    /\ FindMergeBase(store, OurTip, TheirTip).found
    /\ FindMergeBase(store, OurTip, TheirTip).commit # OurTip

\* what MergeTrees returns for the three trees of the call
TreesMerged ==
    MergeTrees(store,
               getTreeFromCommit(store, FindMergeBase(store, OurTip, TheirTip).commit),
               getTreeFromCommit(store, OurTip),
               getTreeFromCommit(store, TheirTip),
               last'.options, NoSim, HistoryOrder)

Commits(st) == {id \in DOMAIN st : st[id].kind = "commit"}

\* C1: when our tip is an ancestor of the target's tip (through parent or
\* parent2 edges) and nothing is staged, Merge returns FastForward = true
\* with no conflicts and our branch then points at the target's tip.
C1_AncestorFastForwards ==
    [][(/\ MergeCalled
        /\ MergePossible
        /\ OurTip \in Reachable(store, {TheirTip})) =>
           /\ ~ last'.err
           /\ last'.result.FastForward
           /\ last'.result.Conflicts = <<>>
           /\ refs'[headFile] = TheirTip]_vars

\* C2: a Merge that returns a result took the fast-forward path exactly when
\* FindMergeBase(our tip, their tip) is our tip; on that path our branch is
\* set to their tip, no other reference changes, the object store is the
\* same and the conflict list is empty.
C2_FastForwardIffBaseIsOurs ==
    [][(MergeCalled /\ ~ last'.err) =>
           /\ last'.result.FastForward <=>
                  (/\ FindMergeBase(store, OurTip, TheirTip).found
                   /\ FindMergeBase(store, OurTip, TheirTip).commit = OurTip)
           /\ last'.result.FastForward =>
                  /\ refs' = [refs EXCEPT ![headFile] = TheirTip]
                  /\ store' = store
                  /\ last'.result.Conflicts = <<>>]_vars

\* a fast-forward that moved our branch to a later commit
C2_Witness ==
    /\ last.op = "Merge" /\ ~ last.err
    /\ last.result.FastForward
    /\ refs[headFile] # last.ours
    /\ refs[headFile] = refs[last.branchName]
    /\ last.ours \in Reachable(store, {refs[headFile]})

\* C3: Merge and CheckoutBranch called with a non-empty stage return an
\* error and leave the references, HEAD, the object store, Stage and Tracked
\* as they were; Merge fails on the stage check, before the merge base.
C3_DirtyStageRefused ==
    [][(last'.op \in {"Merge", "CheckoutBranch"} /\ DOMAIN stage # {}) =>
           /\ last'.err
           /\ UNCHANGED <<refs, headFile, stateHEAD, store, stage, tracked>>
           /\ (MergeCalled /\ refExists(Cur, headFile)
                   /\ refExists(Cur, last'.branchName)) =>
                  last'.result.msg = "cannot merge with uncommitted changes"]_vars

\* a Merge of two existing branches refused for the staged changes
C3_Witness ==
    /\ last.op = "Merge" /\ last.err
    /\ last.result.msg = "cannot merge with uncommitted changes"
    /\ DOMAIN stage # {}
    /\ refs[headFile] # refs[last.branchName]

\* C4: after a Merge that is not a fast-forward, is not halted and has
\* NoCommit unset, our branch points to a new commit whose first parent is
\* our previous tip, whose second parent is the target's tip and whose tree
\* is the stored merged tree; the target's reference is unchanged.
C4_MergeCommitParents ==
    [][(/\ MergeCalled
        /\ ThreeWay
        /\ ~ (last'.options.Strategy = "Manual" /\ TreesMerged.conflicts # <<>>)
        /\ ~ last'.options.NoCommit) =>
           /\ ~ last'.err
           /\ refs'[headFile] \notin DOMAIN store
           /\ IsCommit(store', refs'[headFile])
           /\ readObject(store', refs'[headFile]).parent = OurTip
           /\ readObject(store', refs'[headFile]).parent2 = TheirTip
           /\ treeReadable(store', refs'[headFile])
           /\ getTreeFromCommit(store', refs'[headFile]) = TreesMerged.tree
           /\ last'.result.MergedCommit = refs'[headFile]
           /\ refs' = [refs EXCEPT ![headFile] = refs'[headFile]]]_vars

\* a merge commit that joins two different tips
C4_Witness ==
    /\ last.op = "Merge" /\ ~ last.err
    /\ ~ last.result.FastForward /\ last.result.Success
    /\ ~ last.options.NoCommit
    /\ refs[headFile] = last.result.MergedCommit
    /\ IsCommit(store, refs[headFile])
    /\ readObject(store, refs[headFile]).parent = last.ours
    /\ readObject(store, refs[headFile]).parent2 = refs[last.branchName]
    /\ last.ours # refs[last.branchName]

\* C5: a Merge with strategy Manual that is not a fast-forward and detects a
\* conflict returns without error, Success = false and the conflicts; it
\* writes a marker file at each conflicted path, creates no commit and leaves
\* our branch's reference and Tracked as they were.
C5_ManualHalts ==
    [][(/\ MergeCalled
        /\ ThreeWay
        /\ last'.options.Strategy = "Manual"
        /\ TreesMerged.conflicts # <<>>) =>
           /\ ~ last'.err
           /\ ~ last'.result.Success
           /\ last'.result.Conflicts = TreesMerged.conflicts
           /\ \A k \in 1..Len(TreesMerged.conflicts) :
                 disk'[TreesMerged.conflicts[k].Path] =
                     File(MarkerFile(TreesMerged.conflicts[k]))
           /\ Commits(store') = Commits(store)
           /\ last'.result.MergedCommit = EmptyID
           /\ refs' = refs
           /\ tracked' = tracked]_vars

\* a halted Merge whose marker file is in the working directory
C5_Witness ==
    /\ last.op = "Merge" /\ ~ last.err
    /\ last.options.Strategy = "Manual"
    /\ ~ last.result.Success
    /\ last.result.Conflicts # <<>>
    /\ disk[last.result.Conflicts[1].Path] = File(MarkerFile(last.result.Conflicts[1]))
    /\ refs[headFile] = last.ours

\* the blob contents of base, ours and theirs at path, for a three-way call
\* whose three trees all hold path
SidesAt(path) ==
    LET at(commitID) ==
            readObject(store, getTreeFromCommit(store, commitID)[path]).data
    IN [base |-> at(FindMergeBase(store, OurTip, TheirTip).commit),
        ours |-> at(OurTip), theirs |-> at(TheirTip)]

OnAllSides(path) ==
    /\ Has(getTreeFromCommit(store, FindMergeBase(store, OurTip, TheirTip).commit), path)
    /\ Has(getTreeFromCommit(store, OurTip), path)
    /\ Has(getTreeFromCommit(store, TheirTip), path)

\* C16: a file conflict surfaced under AutoMerge or Manual, in the content
\* MergeFiles returns and in the files WriteConflictMarkers writes when a
\* Manual merge halts, is one block of the lines "<<<<<<< OURS", the complete
\* ours content, "=======", the complete theirs content, ">>>>>>> THEIRS";
\* under Ours or Theirs MergeFiles returns the chosen side's content with no
\* marker and no conflict flag.
C16_ConflictBlockFormat ==
    [][(MergeCalled /\ ThreeWay) =>
           /\ \A path \in HistoryPaths :
                 (/\ OnAllSides(path)
                  /\ MergeFiles(SidesAt(path).base, SidesAt(path).ours,
                                SidesAt(path).theirs, "AutoMerge").hasConflict) =>
                     MergeFiles(SidesAt(path).base, SidesAt(path).ours,
                                SidesAt(path).theirs, last'.options.Strategy) =
                         IF last'.options.Strategy = "Ours"
                         THEN [content |-> SidesAt(path).ours, hasConflict |-> FALSE]
                         ELSE IF last'.options.Strategy = "Theirs"
                         THEN [content |-> SidesAt(path).theirs, hasConflict |-> FALSE]
                         ELSE [content |-> ConflictBlock(SidesAt(path).ours,
                                                         SidesAt(path).theirs),
                               hasConflict |-> TRUE]
           /\ (/\ last'.options.Strategy = "Manual"
               /\ ~ last'.err
               /\ TreesMerged.conflicts # <<>>) =>
                 \A k \in 1..Len(TreesMerged.conflicts) :
                     disk'[TreesMerged.conflicts[k].Path] =
                         File(ConflictBlock(TreesMerged.conflicts[k].OurContent,
                                            TreesMerged.conflicts[k].TheirContent))]_vars

\* C6: when Merge returns an error the object store and the references are
\* what they were before the call.
C6_ErrorChangesNothing ==
    [][(MergeCalled /\ last'.err) => (store' = store /\ refs' = refs)]_vars

\* C9: a Merge with strategy AutoMerge that is not a fast-forward and leaves
\* conflicts unresolved returns no error and reports the conflicts; with
\* NoCommit unset the tree of its merge commit is made of the resolved
\* entries, with no entry at a conflicted path.
C9_AutoKeepsConflictsOut ==
    [][(/\ MergeCalled
        /\ ThreeWay
        /\ last'.options.Strategy = "AutoMerge"
        /\ TreesMerged.conflicts # <<>>) =>
           /\ ~ last'.err
           /\ last'.result.Success
           /\ last'.result.Conflicts = TreesMerged.conflicts
           /\ ~ last'.options.NoCommit =>
                 /\ refs'[headFile] \in Commits(store') \ Commits(store)
                 /\ treeReadable(store', refs'[headFile])
                 /\ getTreeFromCommit(store', refs'[headFile]) = TreesMerged.tree
                 /\ \A path \in ConflictPaths(TreesMerged.conflicts) :
                       ~ Has(getTreeFromCommit(store', refs'[headFile]), path)]_vars

\* a merge commit made with a conflict left unresolved
C9_Witness ==
    /\ last.op = "Merge" /\ ~ last.err
    /\ last.options.Strategy = "AutoMerge"
    /\ last.result.Success
    /\ last.result.Conflicts # <<>>
    /\ last.result.MergedCommit = refs[headFile]
    /\ treeReadable(store, refs[headFile])
    /\ ~ Has(getTreeFromCommit(store, refs[headFile]), last.result.Conflicts[1].Path)

----------------------------------------------------------------------------
(* Claims about FindMergeBase, on the finished calls of SpecGraph *)

Found == call.phase = "found"

\* the parents of commit, first parent first
AllParents(st, commit) ==
    IF ~ IsCommit(st, commit) THEN <<>>
    ELSE SelectSeq(<<readObject(st, commit).parent, readObject(st, commit).parent2>>,
                   LAMBDA c : c # EmptyID)

\* a commit graph: both arguments are commits, every parent named is a commit
\* of the store, and no commit is its own ancestor
CommitGraph ==
    /\ IsCommit(store, call.commitA) /\ IsCommit(store, call.commitB)
    /\ \A c \in Commits(store) :
          /\ \A k \in 1..Len(AllParents(store, c)) :
                IsCommit(store, AllParents(store, c)[k])
          /\ c \notin Reachable(store, {AllParents(store, c)[k] :
                                           k \in 1..Len(AllParents(store, c))})

\* the reference algorithm: breadth-first from the head of queue over parent
\* and parent2, up to the first commit that is in history
RECURSIVE ReferenceWalk(_, _, _, _)
ReferenceWalk(st, queue, visited, history) ==
    IF queue = <<>> THEN [found |-> FALSE, commit |-> EmptyID]
    ELSE IF Head(queue) \in visited
    THEN ReferenceWalk(st, Tail(queue), visited, history)
    ELSE IF Head(queue) \in history THEN [found |-> TRUE, commit |-> Head(queue)]
    ELSE ReferenceWalk(st, Tail(queue) \o AllParents(st, Head(queue)),
                       visited \cup {Head(queue)}, history)

\* C21: on every commit graph, also one with merge commits, FindMergeBase(a, b)
\* returns what the reference algorithm returns: the first commit, in
\* breadth-first order from b over parent and parent2 edges, that is
\* reachable from a over parent and parent2 edges.
C21_MatchesReference ==
    (Found /\ CommitGraph) =>
        [found |-> call.found, commit |-> call.commit] =
            ReferenceWalk(store, <<call.commitB>>, {},
                          Reachable(store, {call.commitA}))

\* C22: FindMergeBase(a, a) returns a, for every commit a.
C22_BaseOfSelf ==
    (Found /\ call.commitA = call.commitB) =>
        (call.found /\ call.commit = call.commitA)

\* a finished call FindMergeBase(a, a) on a commit a that has a parent
C22_Witness ==
    /\ Found /\ call.commitA = call.commitB
    /\ IsCommit(store, call.commitA)
    /\ readObject(store, call.commitA).parent # EmptyID
    /\ call.commit = call.commitA

\* C23: on every commit graph FindMergeBase(a, b) returns an error when no
\* commit is reachable from both a and b, and otherwise a commit that is an
\* ancestor of, or is, both a and b.
C23_ErrorIffNoCommonAncestor ==
    (Found /\ CommitGraph) =>
        LET common == Reachable(store, {call.commitA})
                          \cap Reachable(store, {call.commitB})
        IN IF common = {} THEN ~ call.found
           ELSE call.found /\ call.commit \in common

----------------------------------------------------------------------------
(* Claims about the object store, on the steps of SpecHistory *)

\* C24: every object of the store is filed under the hash of its own bytes,
\* so that reading the id obtained for stored content x yields x and two
\* contents share an id only if they are equal; and an id that is present
\* keeps its bytes through every later Add, Commit, CheckoutBranch and Merge.
C24_ObjectsFiledUnderHash ==
    [][/\ \A id \in DOMAIN store' : id = Hash(readObject(store', id))
       /\ \A id \in DOMAIN store :
             readable(store', id) /\ readObject(store', id) = readObject(store, id)]_vars

\* a three-way Merge has added its merged tree and its commit to the blobs,
\* trees and commits that were there
C24_Witness ==
    /\ last.op = "Merge" /\ ~ last.err
    /\ last.result.Success /\ ~ last.result.FastForward
    /\ IsCommit(store, last.result.MergedCommit)
    /\ IsCommit(store, last.ours)
    /\ \E id \in DOMAIN store : IsBlob(store, id)

----------------------------------------------------------------------------
(* Claims about concurrent writers, on the states of SpecPut *)

\* every writer has written all its bytes
AllStored == call.phase = "put" /\ \A w \in Writers : call.offset[w] = Len(call.content)

\* C25: storing identical bytes any number of times, one writer after the
\* other or with the writers' steps interleaved, gives every writer the same
\* id and leaves the store as storing the bytes once leaves it: one object
\* with those bytes, filed under that id.
C25_IdenticalWritersAgree ==
    AllStored =>
        /\ \A w \in Writers : call.objID[w] = Hash(BlobBytes(call.content))
        /\ store = storeObject(call.before, Hash(BlobBytes(call.content)),
                               BlobBytes(call.content))
        /\ Cardinality({id \in DOMAIN store :
                           readObject(store, id) = BlobBytes(call.content)}) = 1

\* both writers are through with a content of several writes
C25_Witness ==
    /\ AllStored
    /\ Len(call.content) > 1
    /\ readObject(store, call.objID[1]) = BlobBytes(call.content)

----------------------------------------------------------------------------
(* Claims about resolveReference, on the finished calls of SpecRefs *)

Resolved == call.phase = "resolved"

\* where the chain of symbolic references from ref ends: at a commit id, in
\* a cycle, or at a file that is missing
RECURSIVE ChainEnd(_, _, _)
ChainEnd(files, ref, seen) ==
    IF ~ Has(files, ref) THEN [kind |-> "missing"]
    ELSE IF files[ref].kind = "direct" THEN [kind |-> "commit", id |-> files[ref].id]
    ELSE IF files[ref].target \in seen \cup {ref} THEN [kind |-> "cycle"]
    ELSE ChainEnd(files, files[ref].target, seen \cup {ref})

\* C26: resolveReference follows a chain of symbolic references of any
\* length to the commit id it ends at and returns that id; when the chain
\* contains a cycle it returns an error, and never a string that is not a
\* commit id.
C26_FollowsChainsDetectsCycles ==
    Resolved =>
        /\ ChainEnd(refs, call.ref, {}).kind = "commit" =>
              /\ ~ call.err
              /\ call.value = DirectRef(ChainEnd(refs, call.ref, {}).id)
        /\ ChainEnd(refs, call.ref, {}).kind = "cycle" => call.err
        /\ ~ call.err => call.value.kind = "direct"

----------------------------------------------------------------------------
(* Claims about Commit, on the steps of Spec.  A step with last'.op =      *)
(* "Commit" is a call of Commit that returned last'.commitID.              *)

\* C27: after a successful Commit the stage is empty, every path that was
\* staged is tracked with exactly the object id it was staged with, and the
\* commit id returned is not empty.
C27_CommitMovesStageToTracked ==
    [][(last'.op = "Commit" /\ ~ last'.err) =>
           /\ DOMAIN stage' = {}
           /\ \A path \in DOMAIN stage :
                 Has(tracked', path) /\ tracked'[path] = stage[path]
           /\ last'.commitID # EmptyID]_vars

\* a Commit has just succeeded and the path it committed is tracked
C27_Witness ==
    /\ last.op = "Commit" /\ ~ last.err
    /\ DOMAIN stage = {} /\ DOMAIN tracked # {}
    /\ refs[headFile] = last.commitID

----------------------------------------------------------------------------
(* Claims about longestCommonSubsequence, on the line arrays diffContent   *)
(* passes to it in the calls of SpecDiff                                   *)

\* the lines of a at the places in S, in order
RECURSIVE Picked(_, _, _)
Picked(a, S, i) ==
    IF i > Len(a) THEN <<>>
    ELSE (IF i \in S THEN <<a[i]>> ELSE <<>>) \o Picked(a, S, i + 1)

RECURSIVE IsSubsequence(_, _)
IsSubsequence(x, b) ==
    IF x = <<>> THEN TRUE
    ELSE IF b = <<>> THEN FALSE
    ELSE IF Head(x) = Head(b) THEN IsSubsequence(Tail(x), Tail(b))
    ELSE IsSubsequence(x, Tail(b))

\* the lengths of the common subsequences of a and b
CommonLengths(a, b) ==
    {Cardinality(S) : S \in {T \in SUBSET (1..Len(a)) : IsSubsequence(Picked(a, T, 1), b)}}

CallLcs == longestCommonSubsequence(LinesOf(call.oldContent), LinesOf(call.newContent))

\* C29: longestCommonSubsequence(a, b) returns index pairs that increase
\* strictly in both coordinates and pair only equal lines, and as many of
\* them as the longest common subsequence of a and b has lines.
C29_LcsIsLongest ==
    Diffed =>
        /\ \A k \in 1..Len(CallLcs) :
              /\ CallLcs[k][1] \in 0..(Len(LinesOf(call.oldContent)) - 1)
              /\ CallLcs[k][2] \in 0..(Len(LinesOf(call.newContent)) - 1)
              /\ LinesOf(call.oldContent)[CallLcs[k][1] + 1]
                    = LinesOf(call.newContent)[CallLcs[k][2] + 1]
              /\ k > 1 => /\ CallLcs[k - 1][1] < CallLcs[k][1]
                          /\ CallLcs[k - 1][2] < CallLcs[k][2]
        /\ \A n \in CommonLengths(LinesOf(call.oldContent), LinesOf(call.newContent)) :
              n <= Len(CallLcs)

\* two different files whose longest common subsequence has several lines
\* but not all lines of either
C29_Witness ==
    /\ Diffed
    /\ Len(CallLcs) >= 2
    /\ Len(CallLcs) < Len(LinesOf(call.oldContent))
    /\ Len(CallLcs) < Len(LinesOf(call.newContent))

----------------------------------------------------------------------------
(* Claims about the loops, on SpecLoops *)

\* a commit whose parents lead back to it
OnParentCycle(st, commit) ==
    LET RECURSIVE Back(_, _)
        Back(c, n) ==
            /\ n > 0
            /\ Enqueued(st, c) # <<>>
            /\ \/ Enqueued(st, c)[1] = commit
               \/ Back(Enqueued(st, c)[1], n - 1)
    IN Back(commit, MaxGraphCommits)

\* C30: FindMergeBase returns on every store, with commits missing,
\* unreadable or on a cycle of parents, and the loop of convertToEdits and
\* the loop of groupEditsIntoChunks end on all inputs: every call returns.
C30_LoopsTerminate == <>(call.phase = "returned")

\* FindMergeBase has returned after visiting a commit on a cycle of parents
\* that is longer than one commit, in a store where a commit is missing
C30_Witness ==
    /\ call.phase = "returned"
    /\ "visited" \in DOMAIN call
    /\ \E commit \in call.visited :
          /\ OnParentCycle(store, commit)
          /\ Enqueued(store, commit)[1] # commit
    /\ \E commit \in GraphIDs : commit \notin DOMAIN store

----------------------------------------------------------------------------
(* Claims about what the operations keep true of the repository *)

\* C31: after any sequence of operations every branch reference names a
\* commit of the store, every commit of the store has its tree and its
\* non-empty parent and parent2 in the store, and every entry of every tree
\* of the store names a blob of the store.
C31_StoreIsClosed ==
    /\ \A b \in DOMAIN refs : IsCommit(store, refs[b])
    /\ \A id \in DOMAIN store :
          LET obj == readObject(store, id)
          IN /\ obj.kind = "commit" =>
                   /\ IsTree(store, obj.tree)
                   /\ obj.parent # EmptyID => IsCommit(store, obj.parent)
                   /\ obj.parent2 # EmptyID => IsCommit(store, obj.parent2)
             /\ obj.kind = "tree" =>
                   \A p \in DOMAIN obj.entries : IsBlob(store, obj.entries[p])

\* a branch points at a merge commit, which has two parents and a tree with
\* an entry
C31_Witness ==
    \E b \in DOMAIN refs :
       /\ IsCommit(store, refs[b])
       /\ readObject(store, refs[b]).parent # EmptyID
       /\ readObject(store, refs[b]).parent2 # EmptyID
       /\ IsTree(store, readObject(store, refs[b]).tree)
       /\ DOMAIN readObject(store, readObject(store, refs[b]).tree).entries # {}


\* C32: a step that changes an existing branch reference is a Commit or a
\* Merge, and the commit the reference named before is reached from the one
\* it names after by following parent edges; CreateBranch and CheckoutBranch
\* leave every existing branch reference as it is, and no reference goes away.
C32_RefsMoveForward ==
    [][\A b \in DOMAIN refs :
          /\ b \in DOMAIN refs'
          /\ refs'[b] # refs[b] =>
                /\ last'.op \in {"Commit", "Merge"}
                /\ refs[b] \in HistoryOf(store', <<refs'[b]>>, {})]_vars

\* a three-way Merge has moved the current branch from its tip to the merge
\* commit while the other branch stayed where it was
C32_Witness ==
    /\ last.op = "Merge" /\ ~ last.err
    /\ ~ last.result.FastForward
    /\ last.result.MergedCommit # EmptyID
    /\ refs[headFile] = last.result.MergedCommit
    /\ last.ours # refs[headFile]
    /\ \E b \in DOMAIN refs : b # headFile /\ refs[b] # refs[headFile]


\* the last operation was a Commit, a CheckoutBranch or a Merge without
\* conflicts, and it succeeded
SettledTree ==
    \/ last.op \in {"Commit", "CheckoutBranch"} /\ ~ last.err
    \/ /\ last.op = "Merge" /\ ~ last.err
       /\ last.result.Success /\ last.result.Conflicts = <<>>

\* C33: when the stage is empty after a successful Commit, CheckoutBranch or
\* Merge without conflicts, Tracked is exactly the mapping from paths to
\* object ids of the tree of the commit the current branch points to.
C33_TrackedIsTipTree ==
    (SettledTree /\ DOMAIN stage = {} /\ refExists(Cur, headFile)) =>
        /\ treeReadable(store, resolveReference(Cur, headFile))
        /\ tracked = getTreeFromCommit(store, resolveReference(Cur, headFile))


\* C34: in every state, also right after the handle was made again with
\* NewRepository, State.HEAD names the branch reference the HEAD file points
\* to, so that Commit and CreateBranch act on the branch checked out last.
C34_StateHeadIsHeadFile == stateHEAD = headFile


\* the tip of the branch to merge is a proper ancestor of the current tip
TheirsContained ==
    /\ MergeCalled /\ MergePossible
    /\ TheirTip # OurTip
    /\ TheirTip \in Reachable(store, {OurTip})

\* C35: a Merge of a branch whose tip is a proper ancestor of the current
\* tip succeeds without conflicts, and the tree it merges, which is the tree
\* of the merge commit when one is made, is the tree of the current tip.
C35_ContainedMergeKeepsTree ==
    [][TheirsContained =>
          /\ ~ last'.err
          /\ last'.result.Conflicts = <<>>
          /\ last'.result.MergedCommit # EmptyID =>
                getTreeFromCommit(store', last'.result.MergedCommit)
                    = getTreeFromCommit(store, OurTip)]_vars


\* C36: a CheckoutBranch of b that succeeds makes the HEAD file point at b,
\* leaves the stage empty and Tracked equal to the entries of the tree of
\* b's tip, changes no branch reference and adds no object; a CheckoutBranch
\* of a branch that does not exist fails and changes nothing.
C36_CheckoutFrame ==
    [][\A name \in Branches, order \in Orders(WidePaths) :
          CheckoutBranchStep(name, order) =>
             /\ ~ last'.err =>
                   /\ headFile' = name
                   /\ DOMAIN stage' = {}
                   /\ refExists(Cur, name)
                   /\ tracked' = getTreeFromCommit(store, resolveReference(Cur, name))
                   /\ refs' = refs
                   /\ store' = store
             /\ ~ refExists(Cur, name) =>
                   /\ last'.err
                   /\ UNCHANGED <<store, refs, headFile, stateHEAD, stage, tracked,
                                  worktree, disk, indexFile>>]_vars

\* feature was checked out with success and its tip has another tree than
\* the tip of main
C36_Witness ==
    /\ last.op = "CheckoutBranch" /\ ~ last.err
    /\ headFile = "feature"
    /\ refExists(Cur, "main")
    /\ tracked # EmptyMap
    /\ tracked # getTreeFromCommit(store, resolveReference(Cur, "main"))


\* C37: in every state a staged path has a WorkTree entry, and SaveIndex
\* followed by LoadIndex into a new handle gives that handle the Stage and
\* the Tracked of the old one.
C37_IndexRoundTrip ==
    [][/\ DOMAIN stage \subseteq DOMAIN worktree
       /\ (last'.op = "NewRepository" /\ last'.save) =>
             /\ stage' = stage
             /\ tracked' = tracked]_vars

\* a handle was made again after SaveIndex while one file was staged and
\* another one tracked
C37_Witness ==
    /\ last.op = "NewRepository" /\ last.save
    /\ last.stage # EmptyMap
    /\ \E p \in DOMAIN last.tracked : p \notin DOMAIN last.stage
    /\ stage = last.stage /\ tracked = last.tracked


----------------------------------------------------------------------------
(* Claims about the hunks of Diff and the edit script, on SpecDiff *)

\* the lines of a hunk that carry one of the tags
Tagged(chunk, tags) == {i \in 1..Len(chunk.Lines) : chunk.Lines[i][1] \in tags}

\* C38: in every DiffChunk that Diff returns, a hunk of a line diff or the
\* chunk that stands for a whole added or removed file, OldLength is the
\* number of its lines tagged removed or context and NewLength the number
\* of its lines tagged added or context.
C38_LengthsCountLines ==
    call.phase \in {"diffed", "compared"} =>
        \A k \in 1..Len(call.chunks) :
           /\ call.chunks[k].OldLength = Cardinality(Tagged(call.chunks[k], {"-", " "}))
           /\ call.chunks[k].NewLength = Cardinality(Tagged(call.chunks[k], {"+", " "}))


\* C39: the edit script of convertToEdits has an unchanged operation for
\* every pair of the LCS computed, so that its insert and delete operations
\* number len(old) + len(new) - 2 * |LCS|.
C39_EditScriptIsMinimal ==
    Diffed =>
        /\ \A k \in 1..Len(CallLcs) :
              \E i \in 1..Len(CallEdits) :
                 /\ CallEdits[i].Type = "unchanged"
                 /\ CallEdits[i].OldIndex = CallLcs[k][1]
                 /\ CallEdits[i].NewIndex = CallLcs[k][2]
        /\ Cardinality({i \in 1..Len(CallEdits) : Changed(i)})
              = Len(LinesOf(call.oldContent)) + Len(LinesOf(call.newContent))
                   - 2 * Len(CallLcs)


\* the lines of the edits of the given types, in the order of the script
LinesOfTypes(edits, types) ==
    LET picked == SelectSeq(edits, LAMBDA e : e.Type \in types)
    IN [i \in 1..Len(picked) |-> picked[i].LineValue]

\* C40: in the edit script of convertToEdits the delete and unchanged
\* operations, in order, list the lines of the old content, each once; the
\* insert and unchanged operations, in order, list the lines of the new
\* content, each once; and every unchanged operation pairs two equal lines.
C40_EditScriptCoversBothSides ==
    Diffed =>
        LET edits == CallEdits
            oldLines == LinesOf(call.oldContent)
            newLines == LinesOf(call.newContent)
            Before(i, types) ==
                Len(SelectSeq(SubSeq(edits, 1, i - 1), LAMBDA e : e.Type \in types))
        IN /\ LinesOfTypes(edits, {"delete", "unchanged"}) = oldLines
           /\ LinesOfTypes(edits, {"insert", "unchanged"}) = newLines
           /\ \A i \in 1..Len(edits) :
                 /\ edits[i].Type \in {"delete", "unchanged"} =>
                       edits[i].OldIndex = Before(i, {"delete", "unchanged"})
                 /\ edits[i].Type \in {"insert", "unchanged"} =>
                       edits[i].NewIndex = Before(i, {"insert", "unchanged"})
                 /\ edits[i].Type = "unchanged" =>
                       oldLines[edits[i].OldIndex + 1] = newLines[edits[i].NewIndex + 1]

\* a script with an insert, a delete and an unchanged operation
C40_Witness ==
    /\ Diffed
    /\ Len(LinesOf(call.oldContent)) = MaxDiffLines
    /\ LET edits == CallEdits
       IN \A type \in {"insert", "delete", "unchanged"} :
             \E i \in 1..Len(edits) : edits[i].Type = type

====
